---------------------------- MODULE Spec2Model ----------------------------
(***************************************************************************)
(* A model of emailsearch: the index builder (parallel ingestion, merge,   *)
(* serialisation) and the index reader (load, keyword query, catalog).     *)
(*                                                                         *)
(* Strings are sequences of one-character strings; a character's byte is   *)
(* its ASCII code (Code).  Files on disk are sequences of bytes.           *)
(***************************************************************************)
EXTENDS Integers, Sequences, FiniteSets, TLC

(***************************************************************************)
(* Characters and strings                                                  *)
(***************************************************************************)
Printable ==
  << " ", "!", "DQUOTE", "#", "$", "%", "&", "'", "(", ")", "*", "+", ",", "-", ".", "/",
     "0", "1", "2", "3", "4", "5", "6", "7", "8", "9", ":", ";", "<", "=", ">", "?",
     "@", "A", "B", "C", "D", "E", "F", "G", "H", "I", "J", "K", "L", "M", "N", "O",
     "P", "Q", "R", "S", "T", "U", "V", "W", "X", "Y", "Z", "[", "BSLASH", "]", "^", "_",
     "BTICK", "a", "b", "c", "d", "e", "f", "g", "h", "i", "j", "k", "l", "m", "n", "o",
     "p", "q", "r", "s", "t", "u", "v", "w", "x", "y", "z", "{", "|", "}", "~" >>

\* The byte (ASCII code) of a character.
CodeTable ==
  [c \in { Printable[i] : i \in 1..Len(Printable) } |->
     31 + (CHOOSE i \in 1..Len(Printable) : Printable[i] = c)]

Code(c) == CodeTable[c]

\* unicode.IsLetter, unicode.IsDigit and unicode.ToLower on the ASCII range.
IsUpper(r) == Code(r) >= 65 /\ Code(r) <= 90

IsLetter(r) == IsUpper(r) \/ (Code(r) >= 97 /\ Code(r) <= 122)

IsDigit(r) == Code(r) >= 48 /\ Code(r) <= 57

ToLowerRune(r) == IF IsUpper(r) THEN Printable[Code(r) + 32 - 31] ELSE r

\* strings.ToLower
ToLower(s) == [i \in 1..Len(s) |-> ToLowerRune(s[i])]

\* strings.Compare: -1, 0 or 1 by lexicographic byte order.
RECURSIVE StrCompare(_, _)
StrCompare(a, b) ==
  IF Len(a) = 0 /\ Len(b) = 0 THEN 0
  ELSE IF Len(a) = 0 THEN -1
  ELSE IF Len(b) = 0 THEN 1
  ELSE IF Code(a[1]) < Code(b[1]) THEN -1
  ELSE IF Code(a[1]) > Code(b[1]) THEN 1
  ELSE StrCompare(Tail(a), Tail(b))

\* Go maps: a function whose domain is the set of keys present.
EmptyMap == [k \in {} |-> 0]

MapPut(m, k, v) == [x \in (DOMAIN m) \cup {k} |-> IF x = k THEN v ELSE m[x]]

\* slices.Sorted(maps.Keys(m)) for string keys: the keys in ascending order.
RECURSIVE SortedStrings(_)
SortedStrings(S) ==
  IF S = {} THEN << >>
  ELSE LET lo == CHOOSE x \in S : \A y \in S : StrCompare(x, y) <= 0
       IN  << lo >> \o SortedStrings(S \ {lo})

\* The permutations of a sequence (the orders an unstable sort or a map
\* iteration may visit its elements in).
PermsOf(s) ==
  { [i \in 1..Len(s) |-> s[p[i]]] : p \in Permutations(1..Len(s)) }

(***************************************************************************)
(* Tokeniser and stop words (builder.go)                                   *)
(***************************************************************************)
stopWords ==
  { <<"t","h","e">>, <<"b","e">>, <<"t","o">>, <<"o","f">>, <<"a","n","d">>,
    <<"a">>, <<"i","n">>, <<"t","h","a","t">>, <<"h","a","v","e">>, <<"i">>,
    <<"i","t">>, <<"f","o","r">>, <<"n","o","t">>, <<"o","n">>, <<"w","i","t","h">>,
    <<"h","e">>, <<"a","s">>, <<"y","o","u">>, <<"d","o">>, <<"a","t">> }

isStopWord(s) == ToLower(s) \in stopWords

\* The loop of splitText: i is the 0-based byte index of the next rune,
\* start the open word's first byte or -1.
RECURSIVE splitTextLoop(_, _, _, _)
splitTextLoop(text, i, start, spans) ==
  IF i >= Len(text)
  THEN IF start # -1
       THEN Append(spans, [start |-> start, end |-> Len(text)])
       ELSE spans
  ELSE LET r == text[i + 1] IN
       IF (IsLetter(r) \/ IsDigit(r)) /\ start = -1
       THEN splitTextLoop(text, i + 1, i, spans)
       ELSE IF ~(IsLetter(r) /\ ~IsDigit(r)) /\ start # -1
       THEN splitTextLoop(text, i + 1, -1,
                          Append(spans, [start |-> start, end |-> i]))
       ELSE splitTextLoop(text, i + 1, start, spans)

splitText(text) == splitTextLoop(text, 0, -1, << >>)

\* A variant of computeFileIndexLoop that records where a word ends.
RECURSIVE computeFileIndexLoop_spanEnd(_, _, _)
computeFileIndexLoop_spanEnd(s, spans, index) ==
  IF spans = << >> THEN index
  ELSE LET span == Head(spans)
           word == SubSeq(s, span.start + 1, span.end)
           txt  == ToLower(word)
       IN  IF Len(word) < 3 \/ isStopWord(word)
           THEN computeFileIndexLoop_spanEnd(s, Tail(spans), index)
           ELSE computeFileIndexLoop_spanEnd(s, Tail(spans),
                  MapPut(index, txt,
                         IF txt \in DOMAIN index
                         THEN Append(index[txt], span.end)
                         ELSE << span.end >>))

\* A variant of computeFileIndexLoop without the stop-word test.
RECURSIVE computeFileIndexLoop_noStopTest(_, _, _)
computeFileIndexLoop_noStopTest(s, spans, index) ==
  IF spans = << >> THEN index
  ELSE LET span == Head(spans)
           word == SubSeq(s, span.start + 1, span.end)
           txt  == ToLower(word)
       IN  IF Len(word) < 3
           THEN computeFileIndexLoop_noStopTest(s, Tail(spans), index)
           ELSE computeFileIndexLoop_noStopTest(s, Tail(spans),
                  MapPut(index, txt,
                         IF txt \in DOMAIN index
                         THEN Append(index[txt], span.start)
                         ELSE << span.start >>))

\* computeFileIndex: per-file postings, lower-cased word -> byte offsets.
RECURSIVE computeFileIndexLoop(_, _, _)
computeFileIndexLoop(s, spans, index) ==
  IF spans = << >> THEN index
  ELSE LET span == Head(spans)
           word == SubSeq(s, span.start + 1, span.end)
           txt  == ToLower(word)
       IN  IF Len(word) < 3 \/ isStopWord(word)
           THEN computeFileIndexLoop(s, Tail(spans), index)
           ELSE computeFileIndexLoop(s, Tail(spans),
                  MapPut(index, txt,
                         IF txt \in DOMAIN index
                         THEN Append(index[txt], span.start)
                         ELSE << span.start >>))

computeFileIndex(content) ==
  computeFileIndexLoop(content, splitText(content), EmptyMap)

(***************************************************************************)
(* String table (stringset.go)                                             *)
(***************************************************************************)
NewStringSet == [strings |-> EmptyMap, index |-> 0]

\* A variant of StringSetInsert that gives a string already present the next
\* index.
StringSetInsert_reindex(ss, s) ==
  [strings |-> MapPut(ss.strings, s, ss.index), index |-> ss.index + 1]

\* StringSet.Insert: the index it returns.
StringSetInsertIdx(ss, s) ==
  IF s \in DOMAIN ss.strings THEN ss.strings[s] ELSE ss.index

\* StringSet.Insert: the table after the call.
StringSetInsert(ss, s) ==
  IF s \in DOMAIN ss.strings THEN ss
  ELSE [strings |-> MapPut(ss.strings, s, ss.index), index |-> ss.index + 1]

\* StringSet.Index: (idx, ok); idx is 0 when the string is absent.
StringSetIndex(ss, s) ==
  IF s \in DOMAIN ss.strings
  THEN [idx |-> ss.strings[s], ok |-> TRUE]
  ELSE [idx |-> 0, ok |-> FALSE]

\* StringSet.Flatten: position i+1 holds the string of index i.
Flatten(ss) ==
  [i \in 1..Cardinality(DOMAIN ss.strings) |->
     CHOOSE s \in DOMAIN ss.strings : ss.strings[s] = i - 1]

(***************************************************************************)
(* Byte encodings                                                          *)
(***************************************************************************)
\* binary.PutUvarint: unsigned LEB128.
RECURSIVE PutUvarint(_)
PutUvarint(x) ==
  IF x < 128 THEN << x >> ELSE << 128 + (x % 128) >> \o PutUvarint(x \div 128)

\* binary.Write(..., binary.BigEndian, v) of an unsigned integer of n bytes.
RECURSIVE BigEndian(_, _)
BigEndian(x, n) ==
  IF n = 0 THEN << >> ELSE BigEndian(x \div 256, n - 1) \o << x % 256 >>

\* binary.Read of an unsigned big-endian integer: the n bytes from the
\* 0-based position pos.
RECURSIVE ReadBigEndian(_, _, _)
ReadBigEndian(data, pos, n) ==
  IF n = 0 THEN 0
  ELSE ReadBigEndian(data, pos, n - 1) * 256 + data[pos + n]

\* The bytes of a string.
Bytes(s) == [i \in 1..Len(s) |-> Code(s[i])]

RECURSIVE SumSeq(_)
SumSeq(s) == IF s = << >> THEN 0 ELSE Head(s) + SumSeq(Tail(s))

\* compress/gzip, as a framed stream: the two magic bytes, the length of the
\* stored block, the block, and a checksum.
Gzip(content) ==
  << 31, 139 >> \o PutUvarint(Len(content)) \o Bytes(content)
    \o << SumSeq(Bytes(content)) % 256 >>

(***************************************************************************)
(* Ingestion of one file and merge (builder.go)                            *)
(***************************************************************************)
NoErr == "nil"

\* readAllInto: io.ReadFull into a buffer of maxSize bytes.  A short read
\* (io.ErrUnexpectedEOF) is success; an empty body is io.EOF.
readAllInto(maxSize, body, ioFails) ==
  IF ioFails THEN [n |-> 0, err |-> "io"]
  ELSE IF maxSize = 0 THEN [n |-> 0, err |-> NoErr]
  ELSE IF Len(body) = 0 THEN [n |-> 0, err |-> "EOF"]
  ELSE IF Len(body) < maxSize THEN [n |-> Len(body), err |-> NoErr]
  ELSE [n |-> maxSize, err |-> NoErr]

\* The value of the worker's variable err that is stored in outData.Err
\* after the message was handled: the one declared by os.Open (the errors
\* of mail.ReadMessage and readAllInto live in inner scopes).
workerErr(openErr, parseErr, readErr) == openErr

\* The body of the worker loop for one filename: the injestedFile sent on
\* the output channel.
injestFile(fsys, maxSize, work) ==
  LET f == fsys[work]
      outData == [Filename |-> work, Index |-> EmptyMap, Len |-> 0,
                  Compressed |-> << >>, Err |-> NoErr]
  IN  IF f.kind = "open_err" THEN [outData EXCEPT !.Err = "open"]
      ELSE IF f.kind = "parse_err"
      THEN [outData EXCEPT !.Err = workerErr(NoErr, "parse", NoErr)]
      ELSE LET rd == readAllInto(maxSize, f.body, f.kind = "read_err")
               scratch == SubSeq(f.body, 1, rd.n)
           IN  IF rd.err = NoErr
               THEN [outData EXCEPT !.Index = computeFileIndex(scratch),
                                    !.Compressed = Gzip(scratch),
                                    !.Len = rd.n,
                                    !.Err = workerErr(NoErr, NoErr, NoErr)]
               ELSE [outData EXCEPT !.Err = workerErr(NoErr, NoErr, rd.err)]

\* A variant of MergeWords that replaces the posting list of a word.
RECURSIVE MergeWords_replace(_, _, _, _)
MergeWords_replace(b, fileIndex, fidx, sortedWords) ==
  IF sortedWords = << >> THEN b
  ELSE LET word == Head(sortedWords)
           m == [FilenameStringIndex |-> fidx, Offsets |-> fileIndex[word]]
       IN  MergeWords_replace(
             [b EXCEPT !.words = StringSetInsert(b.words, word),
                       !.wordIndex = MapPut(b.wordIndex, word, << m >>)],
             fileIndex, fidx, Tail(sortedWords))

RECURSIVE MergeWords(_, _, _, _)
MergeWords(b, fileIndex, fidx, sortedWords) ==
  IF sortedWords = << >> THEN b
  ELSE LET word == Head(sortedWords)
           m == [FilenameStringIndex |-> fidx, Offsets |-> fileIndex[word]]
           wi == b.wordIndex
       IN  MergeWords(
             [b EXCEPT !.words = StringSetInsert(b.words, word),
                       !.wordIndex = MapPut(wi, word,
                                       IF word \in DOMAIN wi
                                       THEN Append(wi[word], m)
                                       ELSE << m >>)],
             fileIndex, fidx, Tail(sortedWords))

MergeInFileIndex(b, fileIndex, filename) ==
  LET withName == [b EXCEPT !.filenames = StringSetInsert(b.filenames, filename)]
      fidx == StringSetIndex(withName.filenames, filename).idx
  IN  MergeWords(withName, fileIndex, fidx, SortedStrings(DOMAIN fileIndex))

(***************************************************************************)
(* Serialisation (builder.go, stringset.go)                                *)
(***************************************************************************)
Magic4(a, b, c, d) ==
  Code(a) * 16777216 + Code(b) * 65536 + Code(c) * 256 + Code(d)

stringSetMagic == Magic4("S", "T", "R", "S")

indexMagic == Magic4("I", "N", "D", "X")

wordOffsetMagic == Magic4("W", "R", "D", "O")

catalogMagic == Magic4("C", "T", "L", "G")

\* The conversion uint32(x).  Every count, length and offset of the model is
\* far below 2^31, where the conversion changes nothing.
Uint32(x) == x

RECURSIVE MaxLenOf(_)
MaxLenOf(strs) ==
  IF strs = << >> THEN 0
  ELSE LET rest == MaxLenOf(Tail(strs))
       IN  IF Len(Head(strs)) > rest THEN Len(Head(strs)) ELSE rest

\* StringSet.Serialize: the header and the strings in index order.
StringSetSerialize(ss) ==
  [hdr |-> [Magic |-> stringSetMagic, Version |-> 1,
            NStrings |-> Uint32(Len(Flatten(ss))),
            MaxLen |-> MaxLenOf(Flatten(ss)) % 65536],
   strings |-> Flatten(ss)]

errTooBigToSave == "the capacity of the stringset exceeds disk format"

MaxUint16 == 65535

\* StringSet.Serialize: the error it returns.  len(strings) > math.MaxUint32
\* is written with numbers below 2^31.
StringSetSerializeErr(ss) ==
  LET strings == Flatten(ss)
      maxlen == MaxLenOf(strings)
  IN  IF Len(strings) \div 65536 >= 65536 \/ maxlen >= MaxUint16
      THEN errTooBigToSave
      ELSE NoErr

RECURSIVE encodeOffsets(_)
encodeOffsets(offs) ==
  IF offs = << >> THEN << >>
  ELSE PutUvarint(Head(offs)) \o encodeOffsets(Tail(offs))

RECURSIVE encodeMatches(_)
encodeMatches(matches) ==
  IF matches = << >> THEN << >>
  ELSE PutUvarint(Head(matches).FilenameStringIndex)
         \o PutUvarint(Len(Head(matches).Offsets))
         \o encodeOffsets(Head(matches).Offsets)
         \o encodeMatches(Tail(matches))

\* A variant of writeWordsLoop that fills the offsets table in the order of
\* writing.
RECURSIVE writeWordsLoop_writeOrder(_, _, _, _)
writeWordsLoop_writeOrder(b, sortedWords, file, wco) ==
  IF sortedWords = << >> THEN [file |-> file, wco |-> wco]
  ELSE LET word == Head(sortedWords)
           slot == Len(wco) - Len(sortedWords)
           foff == Len(file)
           matches == b.wordIndex[word]
       IN  writeWordsLoop_writeOrder(b, Tail(sortedWords),
             file \o PutUvarint(Len(matches)) \o encodeMatches(matches),
             [wco EXCEPT ![slot + 1] = [WordIndex |-> Uint32(slot), Offset |-> foff]])

\* The loop of writeIndexAndOffsets over the sorted words: file is what was
\* written to corpus.index so far, wco the wordCorpusOffsets table.
RECURSIVE writeWordsLoop(_, _, _, _)
writeWordsLoop(b, sortedWords, file, wco) ==
  IF sortedWords = << >> THEN [file |-> file, wco |-> wco]
  ELSE LET word == Head(sortedWords)
           widx == StringSetIndex(b.words, word).idx
           foff == Len(file)
           matches == b.wordIndex[word]
       IN  writeWordsLoop(b, Tail(sortedWords),
             file \o PutUvarint(Len(matches)) \o encodeMatches(matches),
             [wco EXCEPT ![widx + 1] = [WordIndex |-> Uint32(widx), Offset |-> foff]])

writeIndexAndOffsets(b, nDocs) ==
  LET n == Cardinality(DOMAIN b.wordIndex)
      header == BigEndian(indexMagic, 4) \o BigEndian(1, 4)
                  \o BigEndian(n, 8) \o BigEndian(Uint32(nDocs), 4)
      w == writeWordsLoop(b, SortedStrings(DOMAIN b.wordIndex), header,
                          [i \in 1..n |-> [WordIndex |-> 0, Offset |-> 0]])
  IN  [index |-> w.file,
       offsets |-> [hdr |-> [Magic |-> wordOffsetMagic, Version |-> 1,
                             NumEntries |-> Uint32(n)],
                    entries |-> w.wco]]

\* A variant of catalogOfflens that advances the offset by the length of
\* the uncompressed content.
RECURSIVE catalogOfflens_plainLen(_, _, _, _)
catalogOfflens_plainLen(items, filenames, offset, offlens) ==
  IF items = << >> THEN offlens
  ELSE LET injested == Head(items)
           fidx == StringSetIndex(filenames, injested.Filename).idx
       IN  IF injested.Err # NoErr
           THEN catalogOfflens_plainLen(Tail(items), filenames, offset, offlens)
           ELSE catalogOfflens_plainLen(Tail(items), filenames,
                  offset + injested.Len,
                  [offlens EXCEPT ![fidx * 2 + 1] = Uint32(offset),
                                  ![fidx * 2 + 2] = Uint32(injested.Len)])

\* The first loop of writeCatalog: the (offset, length) table.
RECURSIVE catalogOfflens(_, _, _, _)
catalogOfflens(items, filenames, offset, offlens) ==
  IF items = << >> THEN offlens
  ELSE LET injested == Head(items)
           fidx == StringSetIndex(filenames, injested.Filename).idx
       IN  IF injested.Err # NoErr
           THEN catalogOfflens(Tail(items), filenames, offset, offlens)
           ELSE catalogOfflens(Tail(items), filenames,
                  offset + Len(injested.Compressed),
                  [offlens EXCEPT ![fidx * 2 + 1] = Uint32(offset),
                                  ![fidx * 2 + 2] = Uint32(injested.Len)])

RECURSIVE encodeUint32s(_)
encodeUint32s(xs) ==
  IF xs = << >> THEN << >>
  ELSE BigEndian(Head(xs), 4) \o encodeUint32s(Tail(xs))

RECURSIVE catalogPayloads(_)
catalogPayloads(items) ==
  IF items = << >> THEN << >>
  ELSE Head(items).Compressed \o catalogPayloads(Tail(items))

\* writeCatalog: the bytes of corpus.cat.
writeCatalog(injested, filenames) ==
  LET n == Len(injested)
      hdrSize == 12
      offlens == catalogOfflens(injested, filenames, hdrSize + n * 2 * 4,
                                [i \in 1..(2 * n) |-> 0])
  IN  BigEndian(catalogMagic, 4) \o BigEndian(1, 4) \o BigEndian(Uint32(n), 4)
        \o encodeUint32s(offlens) \o catalogPayloads(injested)

(***************************************************************************)
(* Prefix trie (trie.go)                                                   *)
(*                                                                         *)
(* A Trie is the tree of the nodes reachable from Root.  A node is named   *)
(* by the runes on its path from Root; Root maps each node to its IsWord.  *)
(* The children of a node are the nodes one rune longer.                   *)
(***************************************************************************)
trieMagic == Magic4("T", "R", "I", "E")

\* The conversion uint16(x).
Uint16(x) == x % 65536

\* A rune outside the ASCII range, U+00E9.
EAcute == "EACUTE"

\* What ReadRune yields for bytes that are no rune of the model.
RuneError == "RUNEERROR"

\* The code point of a rune.
RuneCode(r) ==
  IF r = EAcute THEN 233 ELSE IF r = RuneError THEN 65533 ELSE Code(r)

\* utf8.AppendRune (bufio.Writer.WriteRune): one byte below U+0080, two
\* below U+0800, three below U+10000.
EncodeRune(r) ==
  LET c == RuneCode(r) IN
  IF c < 128 THEN << c >>
  ELSE IF c < 2048 THEN << 192 + (c \div 64), 128 + (c % 64) >>
  ELSE << 224 + (c \div 4096), 128 + ((c \div 64) % 64), 128 + (c % 64) >>

RuneOfCode(c) ==
  IF c >= 32 /\ c <= 126 THEN Printable[c - 31]
  ELSE IF c = 233 THEN EAcute
  ELSE RuneError

\* ReadRune at the 0-based position pos: the rune and its size in bytes.
ReadRune(data, pos) ==
  LET b0 == IF pos < Len(data) THEN data[pos + 1] ELSE 0
      b1 == IF pos + 1 < Len(data) THEN data[pos + 2] ELSE 0
      b2 == IF pos + 2 < Len(data) THEN data[pos + 3] ELSE 0
  IN  IF b0 < 128 THEN [r |-> RuneOfCode(b0), size |-> 1]
      ELSE IF b0 >= 192 /\ b0 < 224 /\ b1 >= 128 /\ b1 < 192
      THEN [r |-> RuneOfCode((b0 - 192) * 64 + (b1 - 128)), size |-> 2]
      ELSE IF b0 >= 224 /\ b0 < 240 /\ b1 >= 128 /\ b1 < 192
              /\ b2 >= 128 /\ b2 < 192
      THEN [r |-> RuneOfCode((b0 - 224) * 4096 + (b1 - 128) * 64 + (b2 - 128)),
            size |-> 3]
      ELSE [r |-> RuneError, size |-> 1]

NewTrie == [Root |-> (<< >> :> FALSE), N |-> 1]

\* A variant of InsertWordLoop that marks every node on the path as a word.
RECURSIVE InsertWordLoop_markPath(_, _, _)
InsertWordLoop_markPath(t, current, w) ==
  IF w = << >> THEN [t EXCEPT !.Root = MapPut(t.Root, current, TRUE)]
  ELSE LET child == Append(current, Head(w)) IN
       IF child \notin DOMAIN t.Root
       THEN InsertWordLoop_markPath(
              [Root |-> MapPut(t.Root, child, TRUE), N |-> t.N + 1],
              child, Tail(w))
       ELSE InsertWordLoop_markPath(t, child, Tail(w))

\* A variant of InsertWordLoop that counts a node for every rune of w,
\* whether the node is new or not.
RECURSIVE InsertWordLoop_countRunes(_, _, _)
InsertWordLoop_countRunes(t, current, w) ==
  IF w = << >> THEN [t EXCEPT !.Root = MapPut(t.Root, current, TRUE)]
  ELSE LET child == Append(current, Head(w)) IN
       InsertWordLoop_countRunes(
         [Root |-> IF child \notin DOMAIN t.Root
                   THEN MapPut(t.Root, child, FALSE) ELSE t.Root,
          N |-> t.N + 1],
         child, Tail(w))

\* The loop of InsertWord over the runes of w, current being the node
\* reached, and the statement after it.
RECURSIVE InsertWordLoop(_, _, _)
InsertWordLoop(t, current, w) ==
  IF w = << >> THEN [t EXCEPT !.Root = MapPut(t.Root, current, TRUE)]
  ELSE LET child == Append(current, Head(w)) IN
       IF child \notin DOMAIN t.Root
       THEN InsertWordLoop(
              [Root |-> MapPut(t.Root, child, FALSE), N |-> t.N + 1],
              child, Tail(w))
       ELSE InsertWordLoop(t, child, Tail(w))

InsertWord(t, w) == InsertWordLoop(t, << >>, w)

NilNode == [nil |-> TRUE]

RECURSIVE findNodeLoop(_, _, _)
findNodeLoop(t, current, w) ==
  IF w = << >> THEN [nil |-> FALSE, node |-> current]
  ELSE IF Append(current, Head(w)) \notin DOMAIN t.Root THEN NilNode
  ELSE findNodeLoop(t, Append(current, Head(w)), Tail(w))

findNode(t, w) == findNodeLoop(t, << >>, w)

Has(t, w) ==
  LET node == findNode(t, w) IN  ~node.nil /\ t.Root[node.node]

\* The keys of node.Children.
Children(t, node) ==
  { p[Len(p)] : p \in { q \in DOMAIN t.Root :
                          /\ Len(q) = Len(node) + 1
                          /\ SubSeq(q, 1, Len(node)) = node } }

\* slices.Sorted(maps.Keys(node.Children)): the runes by code point.
RECURSIVE SortedRunes(_)
SortedRunes(S) ==
  IF S = {} THEN << >>
  ELSE LET lo == CHOOSE x \in S : \A y \in S : RuneCode(x) <= RuneCode(y)
       IN  << lo >> \o SortedRunes(S \ {lo})

\* collectWords: every sequence it may append to results.  The range over
\* node.Children visits the children in any order.
RECURSIVE collectWords(_, _, _)
RECURSIVE collectChildren(_, _, _, _)
collectChildren(t, node, prefix, order) ==
  IF order = << >> THEN { << >> }
  ELSE { a \o b :
           a \in collectWords(t, Append(node, Head(order)),
                              Append(prefix, Head(order))),
           b \in collectChildren(t, node, prefix, Tail(order)) }

collectWords(t, node, prefix) ==
  LET own == IF t.Root[node] THEN << prefix >> ELSE << >>
  IN  UNION { { own \o rest : rest \in collectChildren(t, node, prefix, order) } :
              order \in PermsOf(SortedRunes(Children(t, node))) }

\* Trie.WithPrefix: every slice it may return.
WithPrefix(t, prefix) ==
  LET node == findNode(t, prefix)
  IN  IF node.nil THEN { << >> } ELSE collectWords(t, node.node, prefix)

\* A variant of serializeChildren that writes the low byte of a rune only.
RECURSIVE serializeNode_lowByte(_, _)
RECURSIVE serializeChildren_lowByte(_, _, _)
serializeChildren_lowByte(t, node, keys) ==
  IF keys = << >> THEN << >>
  ELSE << RuneCode(Head(keys)) % 128 >>
         \o serializeNode_lowByte(t, Append(node, Head(keys)))
         \o serializeChildren_lowByte(t, node, Tail(keys))

serializeNode_lowByte(t, node) ==
  << IF t.Root[node] THEN 1 ELSE 0 >>
    \o BigEndian(Uint16(Cardinality(Children(t, node))), 2)
    \o serializeChildren_lowByte(t, node, SortedRunes(Children(t, node)))

\* serializeNode: the IsWord byte, the number of children, and for every
\* child in rune order its rune and its subtree.
RECURSIVE serializeNode(_, _)
RECURSIVE serializeChildren(_, _, _)
serializeChildren(t, node, keys) ==
  IF keys = << >> THEN << >>
  ELSE EncodeRune(Head(keys))
         \o serializeNode(t, Append(node, Head(keys)))
         \o serializeChildren(t, node, Tail(keys))

serializeNode(t, node) ==
  << IF t.Root[node] THEN 1 ELSE 0 >>
    \o BigEndian(Uint16(Cardinality(Children(t, node))), 2)
    \o serializeChildren(t, node, SortedRunes(Children(t, node)))

\* Trie.Serialize: the bytes written.
TrieSerialize(t) ==
  BigEndian(trieMagic, 4) \o BigEndian(1, 4) \o BigEndian(Uint32(t.N), 4)
    \o serializeNode(t, << >>)

\* deserializeNode at the 0-based position pos, for the node named path:
\* the nodes of its subtree and the position after it.  A byte past the end
\* of the data reads as zero (the errors of binary.Read are dropped).
RECURSIVE deserializeNode(_, _, _)
RECURSIVE deserializeChildren(_, _, _, _, _)
deserializeChildren(data, pos, path, nc, nodes) ==
  IF nc = 0 THEN [nodes |-> nodes, pos |-> pos]
  ELSE LET rr == ReadRune(data, pos)
           sub == deserializeNode(data, pos + rr.size, Append(path, rr.r))
       IN  deserializeChildren(data, sub.pos, path, nc - 1,
                               sub.nodes @@ nodes)

deserializeNode(data, pos, path) ==
  LET isWord == pos < Len(data) /\ data[pos + 1] # 0
      nc == IF pos + 3 <= Len(data) THEN ReadBigEndian(data, pos + 1, 2)
            ELSE 0
  IN  deserializeChildren(data, pos + 3, path, nc, (path :> isWord))

\* DeserializeTrie: (trie, err).
DeserializeTrie(data) ==
  IF Len(data) < 12 THEN [err |-> "EOF", trie |-> NewTrie]
  ELSE IF ReadBigEndian(data, 0, 4) # trieMagic
          \/ ReadBigEndian(data, 4, 4) # 1
  THEN [err |-> "unsupported version number", trie |-> NewTrie]
  ELSE [err |-> NoErr,
        trie |-> [Root |-> deserializeNode(data, 12, << >>).nodes,
                  N |-> ReadBigEndian(data, 8, 4)]]

\* The loop of buildAndWritePrefixTree over the flattened words.
RECURSIVE insertWords(_, _)
insertWords(t, words) ==
  IF words = << >> THEN t
  ELSE insertWords(InsertWord(t, Head(words)), Tail(words))

\* buildAndWritePrefixTree: the file query.trie.
buildAndWritePrefixTree(b) ==
  [exists |-> TRUE,
   data |-> TrieSerialize(insertWords(NewTrie, Flatten(b.words)))]

\* IndexBuilder.Serialize: the artifact directory.
Serialize(b, injested, nDocs) ==
  LET io == writeIndexAndOffsets(b, nDocs)
  IN  [filenamesSid |-> StringSetSerialize(b.filenames),
       wordsSid     |-> StringSetSerialize(b.words),
       corpusIndex  |-> io.index,
       wordOffsets  |-> io.offsets,
       corpusCat    |-> writeCatalog(injested, b.filenames),
       queryTrie    |-> buildAndWritePrefixTree(b)]

SerializeEvent_BeginPhase == 0
SerializeEvent_EndPhase == 1
SerializeEvent_ProgressPhase == 2

SerializePhase_FilenameSet == 1
SerializePhase_WordsSet == 2
SerializePhase_Index == 3
SerializePhase_Catalog == 4
SerializePhase_WordOffsets == 5
SerializePhase_PrefixTree == 6

SerializeUpdate(event, phase, n) == [Event |-> event, Phase |-> phase, N |-> n]

\* n updates SerializeEvent_ProgressPhase of a phase
ProgressUpdates(phase, n) ==
  [i \in 1..n |-> SerializeUpdate(SerializeEvent_ProgressPhase, phase, 1)]

\* The steps of Serialize after createOutDir, in the order of the code.
SerializeSteps == << "filenames", "words", "index", "offsets", "catalog", "trie" >>

\* What one step of Serialize sends to serializeUpdate and the error it
\* returns, created telling whether os.Create gave the step its file.
SerializeStep(b, step, created) ==
  LET createErr == IF created THEN NoErr ELSE "create failed"
      begin(phase, n) == SerializeUpdate(SerializeEvent_BeginPhase, phase, n)
      end(phase, n) == SerializeUpdate(SerializeEvent_EndPhase, phase, n)
      set(ss, phase) ==
        [updates |-> << begin(phase, 1), end(phase, 1) >>,
         err |-> IF StringSetSerializeErr(ss) # NoErr
                 THEN StringSetSerializeErr(ss) ELSE createErr]
      nWords == Cardinality(DOMAIN b.wordIndex)
  IN  CASE step = "filenames" -> set(b.filenames, SerializePhase_FilenameSet)
        [] step = "words" -> set(b.words, SerializePhase_WordsSet)
        [] step = "index" ->
             IF ~created THEN [updates |-> << >>, err |-> createErr]
             ELSE [updates |-> << begin(SerializePhase_Index, nWords) >>
                                 \o ProgressUpdates(SerializePhase_Index, nWords)
                                 \o << end(SerializePhase_Index, 0) >>,
                   err |-> NoErr]
        [] step = "offsets" ->
             [updates |-> << begin(SerializePhase_WordOffsets, 1) >>
                            \o (IF created
                                THEN << end(SerializePhase_WordOffsets, 1) >>
                                ELSE << >>),
              err |-> createErr]
        [] step = "catalog" ->
             IF ~created THEN [updates |-> << >>, err |-> createErr]
             ELSE [updates |-> << begin(SerializePhase_Catalog, Len(b.injested)) >>
                                 \o ProgressUpdates(SerializePhase_Catalog,
                                                    Len(b.injested))
                                 \o << end(SerializePhase_Catalog, 0) >>,
                   err |-> NoErr]
        [] step = "trie" ->
             [updates |-> << begin(SerializePhase_PrefixTree, 1) >>
                            \o (IF created
                                THEN << end(SerializePhase_PrefixTree, 1) >>
                                ELSE << >>),
              err |-> createErr]

(***************************************************************************)
(* Index reader (index.go)                                                 *)
(***************************************************************************)
\* binary.ReadUvarint on a reader whose cursor is at the 0-based position
\* pos: the value, the cursor after the read, and the error.  x is the value
\* accumulated so far, mult is 2^shift and i counts the bytes read.
RECURSIVE ReadUvarintLoop(_, _, _, _, _)
ReadUvarintLoop(data, pos, x, mult, i) ==
  IF pos >= Len(data)
  THEN [val |-> x, pos |-> pos, err |-> IF i > 0 THEN "UnexpectedEOF" ELSE "EOF"]
  ELSE LET b == data[pos + 1] IN
       IF b < 128
       THEN [val |-> x + b * mult, pos |-> pos + 1, err |-> NoErr]
       ELSE ReadUvarintLoop(data, pos + 1, x + (b % 128) * mult, mult * 128, i + 1)

ReadUvarint(data, pos) == ReadUvarintLoop(data, pos, 0, 1, 0)

\* loadStringTable
loadStringTable(file) ==
  IF file.hdr.Magic # stringSetMagic \/ file.hdr.Version # 1
  THEN [err |-> "unsupported string set version", strings |-> << >>]
  ELSE IF Len(file.strings) < file.hdr.NStrings
  THEN [err |-> "EOF", strings |-> << >>]
  ELSE [err |-> NoErr, strings |-> SubSeq(file.strings, 1, file.hdr.NStrings)]

\* loadOffsetsTable
loadOffsetsTable(file) ==
  IF file.hdr.Magic # wordOffsetMagic \/ file.hdr.Version # 1
  THEN [err |-> "unsupported offsets version", offsets |-> << >>]
  ELSE IF Len(file.entries) < file.hdr.NumEntries
  THEN [err |-> "EOF", offsets |-> << >>]
  ELSE [err |-> NoErr, offsets |-> SubSeq(file.entries, 1, file.hdr.NumEntries)]

\* buildWordOffsetsMap: walk the offsets table; a later entry of the same
\* word overwrites an earlier one.
RECURSIVE buildWordOffsetsMap(_, _, _)
buildWordOffsetsMap(words, offsets, m) ==
  IF offsets = << >> THEN m
  ELSE buildWordOffsetsMap(words, Tail(offsets),
         MapPut(m, words[Head(offsets).WordIndex + 1], Head(offsets).Offset))

\* loadCatalogHeader: the header and the directory of corpus.cat.
loadCatalogHeader(data) ==
  IF Len(data) < 12 THEN [err |-> "EOF", contentEntry |-> << >>]
  ELSE IF ReadBigEndian(data, 0, 4) # catalogMagic \/ ReadBigEndian(data, 4, 4) # 1
  THEN [err |-> "unsupported catalog version", contentEntry |-> << >>]
  ELSE LET n == ReadBigEndian(data, 8, 4) IN
       IF Len(data) < 12 + 8 * n THEN [err |-> "EOF", contentEntry |-> << >>]
       ELSE [err |-> NoErr,
             contentEntry |->
               [i \in 1..n |->
                  [Offset |-> ReadBigEndian(data, 12 + 8 * (i - 1), 4),
                   Length |-> ReadBigEndian(data, 12 + 8 * (i - 1) + 4, 4)]]]

NoIndex == [loaded |-> FALSE]

\* The nil *Trie.
NilTrie == [nil |-> TRUE]

\* loadPrefixTree: (trie, err).  A file that does not exist is no error.
loadPrefixTree(file) ==
  IF ~file.exists THEN [err |-> NoErr, trie |-> NilTrie]
  ELSE LET d == DeserializeTrie(file.data)
       IN  IF d.err # NoErr THEN [err |-> d.err, trie |-> NilTrie]
           ELSE [err |-> NoErr, trie |-> [nil |-> FALSE, t |-> d.trie]]

\* idx.words[wo.WordIndex] is out of range for an entry of the offsets
\* table: the runtime panics.
buildWordOffsetsMapPanics(words, offsets) ==
  \E i \in DOMAIN offsets : offsets[i].WordIndex >= Len(words)

\* LoadIndexFromDisk: (idx, err), or a panic, in which case nothing is
\* returned.  indexRdr and catalogRdr are the mapped
\* files; their cursors are the variables indexCursor and catalogCursor.
LoadIndexFromDisk(dir) ==
  LET fn == loadStringTable(dir.filenamesSid)
      wd == loadStringTable(dir.wordsSid)
      ot == loadOffsetsTable(dir.wordOffsets)
      ch == loadCatalogHeader(dir.corpusCat)
      pt == loadPrefixTree(dir.queryTrie)
      fail(e) == [err |-> e, idx |-> NoIndex, panic |-> FALSE]
  IN  IF fn.err # NoErr THEN fail(fn.err)
      ELSE IF wd.err # NoErr THEN fail(wd.err)
      ELSE IF ot.err # NoErr THEN fail(ot.err)
      ELSE IF Len(ot.offsets) # Len(wd.strings) THEN fail("data mismatch")
      ELSE IF buildWordOffsetsMapPanics(wd.strings, ot.offsets)
      THEN [err |-> "index out of range", idx |-> NoIndex, panic |-> TRUE]
      ELSE IF pt.err # NoErr THEN fail(pt.err)
      ELSE IF Len(dir.corpusIndex) < 20 THEN fail("EOF")
      ELSE IF ReadBigEndian(dir.corpusIndex, 0, 4) # indexMagic
              \/ ReadBigEndian(dir.corpusIndex, 4, 4) # 1
      THEN fail("unsupported index version")
      ELSE IF ch.err # NoErr THEN fail(ch.err)
      ELSE [err |-> NoErr, panic |-> FALSE,
            idx |-> [loaded |-> TRUE,
                     filenames |-> fn.strings,
                     words |-> wd.strings,
                     offsets |-> ot.offsets,
                     contentEntry |-> ch.contentEntry,
                     wordsToOffsets |->
                       buildWordOffsetsMap(wd.strings, ot.offsets, EmptyMap),
                     prefixTree |-> pt.trie,
                     CorpusSize |-> ReadBigEndian(dir.corpusIndex, 16, 4),
                     indexRdr |-> dir.corpusIndex,
                     catalogRdr |-> dir.corpusCat]]

(***************************************************************************)
(* Query engine (index.go)                                                 *)
(*                                                                         *)
(* A call of QueryIndex is a record cs: its arguments, its position pc in  *)
(* the code and its local variables.  QueryStep is the code between two    *)
(* uses of the reader idx.indexRdr, whose cursor cur is shared by all the  *)
(* calls on one Index.                                                     *)
(***************************************************************************)
NoReturn == [returned |-> FALSE]

QueryCall(querywords) ==
  [op |-> "QueryIndex", querywords |-> querywords, pc |-> "term", qi |-> 1,
   qwres |-> [i \in 1..Len(querywords) |-> EmptyMap],
   numMatches |-> 0, fidx |-> 0, numoff |-> 0, ret |-> NoReturn]

\* return nil, err
QueryReturnNil(cs, err) ==
  [cs EXCEPT !.pc = "returned",
             !.ret = [returned |-> TRUE, results |-> << >>, isNil |-> TRUE,
                      err |-> err, panic |-> FALSE]]

\* A variant of QueryNextMatch that leaves the posting list after its first
\* match.
QueryNextMatch_firstOnly(cs) ==
  [cs EXCEPT !.numMatches = 0, !.qi = cs.qi + 1, !.pc = "term"]

\* The end of one iteration of "for range numMatches".
QueryNextMatch(cs) ==
  IF cs.numMatches > 1
  THEN [cs EXCEPT !.numMatches = cs.numMatches - 1, !.pc = "fidx"]
  ELSE [cs EXCEPT !.numMatches = 0, !.qi = cs.qi + 1, !.pc = "term"]

QueryStep(idx, cs, cur) ==
  LET query == cs.querywords[cs.qi]
      lquery == ToLower(query)
      r == ReadUvarint(idx.indexRdr, cur)
      keep(c) == [cs |-> c, cur |-> cur]
      read(c) == [cs |-> c, cur |-> r.pos]
  IN  CASE cs.pc = "term" ->
             IF cs.qi > Len(cs.querywords) THEN keep([cs EXCEPT !.pc = "finish"])
             ELSE IF isStopWord(lquery) THEN keep([cs EXCEPT !.qi = cs.qi + 1])
             ELSE IF lquery \notin DOMAIN idx.wordsToOffsets
             THEN keep([cs EXCEPT !.pc = "finish"])
             ELSE IF idx.wordsToOffsets[lquery] = 0
             THEN keep(QueryReturnNil(cs, NoErr))
             ELSE [cs |-> [cs EXCEPT !.pc = "numMatches"],
                   cur |-> idx.wordsToOffsets[lquery]]
        [] cs.pc = "numMatches" ->
             IF r.err # NoErr THEN read(QueryReturnNil(cs, "failed to read index"))
             ELSE IF r.val = 0
             THEN read([cs EXCEPT !.qi = cs.qi + 1, !.pc = "term"])
             ELSE read([cs EXCEPT !.numMatches = r.val, !.pc = "fidx"])
        [] cs.pc = "fidx" ->
             read([cs EXCEPT !.fidx = r.val, !.pc = "numoff"])
        [] cs.pc = "numoff" ->
             IF r.val = 0 THEN read(QueryNextMatch(cs))
             ELSE read([cs EXCEPT !.numoff = r.val, !.pc = "off"])
        [] cs.pc = "off" ->
             IF r.err # NoErr
             THEN read(QueryReturnNil(cs, "error reading from index"))
             ELSE LET m == cs.qwres[cs.qi]
                      rec == [Word |-> query, Offset |-> Uint32(r.val)]
                      app == [cs EXCEPT !.qwres[cs.qi] =
                                MapPut(m, cs.fidx,
                                       IF cs.fidx \in DOMAIN m
                                       THEN Append(m[cs.fidx], rec)
                                       ELSE << rec >>)]
                  IN  IF cs.numoff > 1
                      THEN read([app EXCEPT !.numoff = cs.numoff - 1])
                      ELSE read(QueryNextMatch(app))

\* The term loop of QueryIndex run without interruption from the cursor
\* position cur: the call at "finish" or "returned", and the cursor.
RECURSIVE QueryRun(_, _, _)
QueryRun(idx, cs, cur) ==
  IF cs.pc \in {"finish", "returned"} THEN [cs |-> cs, cur |-> cur]
  ELSE LET n == QueryStep(idx, cs, cur) IN QueryRun(idx, n.cs, n.cur)

\* A variant of intersectAppend that passes over a map without the key
\* instead of dropping the key.
RECURSIVE intersectAppend_skipMissing(_, _, _)
intersectAppend_skipMissing(k, rest, temp) ==
  IF rest = << >> THEN [found |-> TRUE, temp |-> temp]
  ELSE IF k \in DOMAIN Head(rest)
  THEN intersectAppend_skipMissing(k, Tail(rest), temp \o Head(rest)[k])
  ELSE intersectAppend_skipMissing(k, Tail(rest), temp)

\* The inner loop of intersectWordResults for the key k of the first map.
RECURSIVE intersectAppend(_, _, _)
intersectAppend(k, rest, temp) ==
  IF rest = << >> THEN [found |-> TRUE, temp |-> temp]
  ELSE IF k \in DOMAIN Head(rest)
  THEN intersectAppend(k, Tail(rest), temp \o Head(rest)[k])
  ELSE [found |-> FALSE, temp |-> temp]

intersectWordResults(results) ==
  IF Len(results) = 0 THEN [isNil |-> TRUE, m |-> EmptyMap]
  ELSE LET firstMap == results[1]
           kept == { k \in DOMAIN firstMap :
                       intersectAppend(k, Tail(results), firstMap[k]).found }
       IN  [isNil |-> FALSE,
            m |-> [k \in kept |->
                     intersectAppend(k, Tail(results), firstMap[k]).temp]]

\* slices.SortFunc is not stable: any ordering of s that cmp accepts.
SortFunc(s, cmp(_, _)) ==
  { t \in PermsOf(s) :
      \A i, j \in 1..Len(t) : i < j => cmp(t[i], t[j]) <= 0 }

\* A variant of cmpOffset that orders nothing.
cmpOffset_unordered(a, b) == 0

\* The comparator of the sort of one file's matches.
cmpOffset(a, b) ==
  IF a.Offset < b.Offset THEN -1 ELSE IF a.Offset > b.Offset THEN 1 ELSE 0

\* A variant of cmpResults without the tie-break on the filename.
cmpResults_noTieBreak(a, b) ==
  LET la == Len(a.WordMatches)
      lb == Len(b.WordMatches)
  IN  IF la < lb THEN 1 ELSE IF la > lb THEN -1 ELSE 0

\* The comparator of the sort of the results.
cmpResults(a, b) ==
  LET la == Len(a.WordMatches)
      lb == Len(b.WordMatches)
  IN  IF la < lb THEN 1
      ELSE IF la > lb THEN -1
      ELSE StrCompare(a.Filename, b.Filename)

RECURSIVE SeqOfSet(_)
SeqOfSet(S) ==
  IF S = {} THEN << >>
  ELSE LET x == CHOOSE y \in S : TRUE IN << x >> \o SeqOfSet(S \ {x})

\* The code of QueryIndex after the term loop: every value it may return.
\* The order in which the maps are iterated is one of the orders the sort
\* of the results starts from.
QueryFinish(idx, cs) ==
  LET sr == intersectWordResults(cs.qwres).m
      keys == SeqOfSet(DOMAIN sr)
      sorted == { f \in [DOMAIN sr -> UNION { SortFunc(sr[k], cmpOffset) : k \in DOMAIN sr }] :
                    \A k \in DOMAIN sr : f[k] \in SortFunc(sr[k], cmpOffset) }
      unsorted(f) == [i \in 1..Len(keys) |->
                        [Filename |-> idx.filenames[keys[i] + 1],
                         WordMatches |-> f[keys[i]],
                         FilenameIndex |-> keys[i]]]
  IN  IF \E k \in DOMAIN sr : k >= Len(idx.filenames)
      THEN { [returned |-> TRUE, results |-> << >>, isNil |-> TRUE,
              err |-> NoErr, panic |-> TRUE] }
      ELSE { [returned |-> TRUE, results |-> res, isNil |-> FALSE,
              err |-> NoErr, panic |-> FALSE] :
               res \in UNION { SortFunc(unsorted(f), cmpResults) : f \in sorted } }

\* Every value QueryIndex(querywords) may return when it runs alone.
QueryIndex(idx, querywords, cur) ==
  LET run == QueryRun(idx, QueryCall(querywords), cur)
  IN  IF run.cs.pc = "returned" THEN { run.cs.ret }
      ELSE QueryFinish(idx, run.cs)

\* gzip.NewReader(rd) and io.ReadFull(gzr, contents) for n = len(contents):
\* the stream is read from the position pos of the reader.  The buffered
\* reader that gzip puts around rd reads ahead, up to 4096 bytes.
GzipRead(data, pos, n) ==
  LET l == ReadUvarint(data, pos + 2)
      ahead == IF pos + 4096 < Len(data) THEN pos + 4096 ELSE Len(data)
      fail == [err |-> "gzip", content |-> << >>,
               pos |-> IF pos > Len(data) THEN pos ELSE ahead]
  IN  IF pos + 2 > Len(data) THEN fail
      ELSE IF data[pos + 1] # 31 \/ data[pos + 2] # 139 THEN fail
      ELSE IF l.err # NoErr THEN fail
      ELSE IF l.pos + l.val > Len(data) \/ l.val < n THEN fail
      ELSE [err |-> NoErr, content |-> SubSeq(data, l.pos + 1, l.pos + n),
            pos |-> ahead]

ContentCall(filenameIdx) ==
  [op |-> "CatalogContent", filenameIdx |-> filenameIdx, pc |-> "seek",
   ret |-> NoReturn]

\* The zero values of the named results of CatalogContent.
ContentReturnZero(cs) ==
  [cs EXCEPT !.pc = "returned",
             !.ret = [returned |-> TRUE, content |-> << >>,
                      filename |-> << >>, ok |-> FALSE]]

\* CatalogContent between two uses of idx.catalogRdr, whose cursor cur is
\* shared by all the calls on one Index.
CatalogContentStep(idx, cs, cur) ==
  LET entry == idx.contentEntry[cs.filenameIdx + 1]
      g == GzipRead(idx.catalogRdr, cur, entry.Length)
  IN  CASE cs.pc = "seek" ->
             IF cs.filenameIdx < 0 \/ cs.filenameIdx >= Len(idx.filenames)
             THEN [cs |-> ContentReturnZero(cs), cur |-> cur]
             ELSE [cs |-> [cs EXCEPT !.pc = "read"], cur |-> entry.Offset]
        [] cs.pc = "read" ->
             IF g.err # NoErr
             THEN [cs |-> ContentReturnZero(cs), cur |-> g.pos]
             ELSE [cs |-> [cs EXCEPT !.pc = "returned",
                             !.ret = [returned |-> TRUE,
                                      content |-> g.content,
                                      filename |-> idx.filenames[cs.filenameIdx + 1],
                                      ok |-> TRUE]],
                   cur |-> g.pos]

\* What CatalogContent(filenameIdx) returns when it runs alone.
RECURSIVE CatalogContentRun(_, _, _)
CatalogContentRun(idx, cs, cur) ==
  IF cs.pc = "returned" THEN cs.ret
  ELSE LET n == CatalogContentStep(idx, cs, cur)
       IN  CatalogContentRun(idx, n.cs, n.cur)

CatalogContent(idx, filenameIdx, cur) ==
  CatalogContentRun(idx, ContentCall(filenameIdx), cur)

\* filterFunc(x, f) with the f of Prefix, !isStopWord(s).
RECURSIVE filterFunc(_)
filterFunc(x) ==
  IF x = << >> THEN << >>
  ELSE IF ~isStopWord(Head(x)) THEN << Head(x) >> \o filterFunc(Tail(x))
  ELSE filterFunc(Tail(x))

Min(a, b) == IF a < b THEN a ELSE b

\* A variant of Prefix that looks the prefix up as given.
Prefix_noFold(idx, prefix, n) ==
  IF idx.prefixTree.nil \/ n = 0 THEN { << >> }
  ELSE { IF n < 0 THEN filterFunc(m)
         ELSE SubSeq(filterFunc(m), 1, Min(Len(filterFunc(m)), n)) :
         m \in WithPrefix(idx.prefixTree.t, prefix) }

\* Index.Prefix: every slice it may return (nil is the empty slice).
Prefix(idx, prefix, n) ==
  IF idx.prefixTree.nil \/ n = 0 THEN { << >> }
  ELSE { IF n < 0 THEN filterFunc(m)
         ELSE SubSeq(filterFunc(m), 1, Min(Len(filterFunc(m)), n)) :
         m \in WithPrefix(idx.prefixTree.t, ToLower(prefix)) }

(***************************************************************************)
(* Set (trie.go)                                                           *)
(*                                                                         *)
(* elems is a Go map to struct{}: a function whose domain is the elements. *)
(***************************************************************************)
Unit == "struct{}"

NewSet == [elems |-> EmptyMap]

SetInsert(s, item) == [elems |-> MapPut(s.elems, item, Unit)]

\* delete(s.elems, item)
SetRemove(s, item) ==
  [elems |-> [x \in (DOMAIN s.elems) \ {item} |-> s.elems[x]]]

SetHas(s, item) == item \in DOMAIN s.elems

\* for k := range keys { if keep(k) { r.Insert(k) } }, keep being the set of
\* the keys that pass the test of the loop.  The range visits the keys in
\* any order; the keys are inserted one by one.
RECURSIVE insertKeys(_, _, _)
insertKeys(r, keys, keep) ==
  IF keys = {} THEN r
  ELSE LET k == CHOOSE x \in keys : TRUE
       IN  insertKeys(IF k \in keep THEN SetInsert(r, k) ELSE r,
                      keys \ {k}, keep)

SetUnion(s, a) ==
  insertKeys(insertKeys(NewSet, DOMAIN s.elems, DOMAIN s.elems),
             DOMAIN a.elems, DOMAIN a.elems)

SetIntersect(s, a) ==
  insertKeys(NewSet, DOMAIN a.elems, { k \in DOMAIN a.elems : SetHas(s, k) })

\* A variant of SetDifference that tests the elements of a against s.
SetDifference_swapped(s, a) ==
  insertKeys(NewSet, DOMAIN a.elems, { k \in DOMAIN a.elems : ~SetHas(s, k) })

SetDifference(s, a) ==
  insertKeys(NewSet, DOMAIN s.elems, { k \in DOMAIN s.elems : ~SetHas(a, k) })

(***************************************************************************)
(* The corpus: the input directory of the builder                          *)
(***************************************************************************)
\* Bounds of the model.
MaxFiles == 2

MaxThreads == 2

MaxQueryLen == 2

MaxCalls == 2

\* The relative filenames the directory walk may yield, in walk order.
Names == << <<"a">>, <<"a","b">>, <<"b">>, <<"c">> >>

Body1 == <<"f","o","x"," ","c","a","t">>

Body2 == <<"c","a","t"," ","t","h","e"," ","F","o","x"," ","c","a","t">>

Body3 == <<"o","w","l",","," ","t","o"," ","F","O","X">>

\* What a file of the directory may be: a message with a body, a file that
\* cannot be opened, a file that is no RFC 5322 message, a message whose
\* body cannot be read.
FileContents ==
  { [kind |-> "ok", body |-> Body1],
    [kind |-> "ok", body |-> Body2],
    [kind |-> "ok", body |-> Body3],
    [kind |-> "open_err", body |-> << >>],
    [kind |-> "parse_err", body |-> << >>],
    [kind |-> "read_err", body |-> Body1] }

\* The directories of n files.
Corpora(n) == [ { Names[i] : i \in 1..n } -> FileContents ]

\* The size of a file: its body and at least the line that ends the header.
RECURSIVE MaxSizeOf(_, _)
MaxSizeOf(fsys, names) ==
  IF names = {} THEN 0
  ELSE LET f == CHOOSE x \in names : TRUE
           rest == MaxSizeOf(fsys, names \ {f})
           size == Len(fsys[f].body) + 1
       IN  IF size > rest THEN size ELSE rest

\* The words a query may hold.
QueryWords ==
  { <<"f","o","x">>, <<"F","o","x">>, <<"c","a","t">>, <<"T","h","e">>,
    <<"e","l","k">> }

Queries == UNION { [1..n -> QueryWords] : n \in 0..MaxQueryLen }

(***************************************************************************)
(* State                                                                   *)
(***************************************************************************)
VARIABLES
  fsys,           \* the input directory: filename -> file
  filenamesIn,    \* the argument filenames of InjestFiles
  maxSize,        \* the argument maxSize of InjestFiles
  NThreads,       \* ib.NThreads
  inCh,           \* the buffered channel of filenames
  inChClosed,
  produced,       \* how many filenames the producer goroutine has sent
  worker,         \* per worker: its position and its outData
  outChClosed,
  collector,      \* the position of InjestFiles / Serialize itself
  ib,             \* the IndexBuilder: filenames, words, wordIndex, injested, nDocs
  mergePos,       \* the index of the merge loop over ib.injested
  progress,       \* ib.InjestProgressCh and what its observer received
  disk,           \* the artifact directory
  idx,            \* the loaded Index
  indexCursor,    \* the cursor of idx.indexRdr
  catalogCursor,  \* the cursor of idx.catalogRdr
  calls,          \* the calls in progress on idx
  text,           \* the text given to the tokeniser
  tokens,         \* what the tokeniser made of it
  trie,           \* a Trie under construction
  inserted,       \* the words given to InsertWord, in call order
  trieFile,       \* what Trie.Serialize wrote
  loadedTrie,     \* what DeserializeTrie made of it
  lookup,         \* the last call of Has or WithPrefix and its result
  ss,             \* a StringSet
  ssPool,         \* which strings its callers insert and look up
  ssLast,         \* the last call on ss and its result
  sets,           \* two Sets, s and a, and the last call made on each element
  setLast,        \* the last call on the Sets and its result
  ser             \* a call of Serialize: its position, its progress channel

buildVars ==
  << filenamesIn, maxSize, NThreads, inCh, inChClosed, produced, worker, outChClosed,
     collector, mergePos, progress >>

readerVars == << idx, indexCursor, catalogCursor, calls >>

trieVars == << trie, inserted, trieFile, loadedTrie, lookup >>

tableVars == << ss, ssPool, ssLast >>

setVars == << sets, setLast >>

unitVars == << text, tokens, trieVars, tableVars, setVars, ser >>

vars == << fsys, buildVars, ib, disk, readerVars, unitVars >>

NoTokens == [done |-> FALSE]

\* No function is exercised on its own.
NoFile == [written |-> FALSE]

NoTrie == [loaded |-> FALSE]

NoLookup == [op |-> "none"]

\* No trie is exercised on its own.
IdleTrie ==
  /\ trie = NewTrie
  /\ inserted = << >>
  /\ trieFile = NoFile
  /\ loadedTrie = NoTrie
  /\ lookup = NoLookup

\* No string table is exercised on its own.
IdleTable ==
  /\ ss = NewStringSet
  /\ ssPool = "none"
  /\ ssLast = NoLookup

NoSer == [pc |-> "idle"]

\* Serialize is not followed phase by phase.
IdleSer == ser = NoSer

\* No Set is exercised on its own.
IdleSets ==
  /\ sets = [s |-> NewSet, a |-> NewSet,
             lastOn |-> [s |-> EmptyMap, a |-> EmptyMap]]
  /\ setLast = NoLookup

IdleUnits ==
  /\ text = << >>
  /\ tokens = NoTokens
  /\ IdleTrie
  /\ IdleTable
  /\ IdleSets
  /\ IdleSer

NewIndexBuilder ==
  [filenames |-> NewStringSet, words |-> NewStringSet, wordIndex |-> EmptyMap,
   injested |-> << >>, nDocs |-> 0]

\* The merge loop of InjestFiles over the sorted ib.injested, from item i.
RECURSIVE MergeLoop(_, _)
MergeLoop(b, i) ==
  IF i > Len(b.injested) THEN b
  ELSE LET result == b.injested[i] IN
       IF result.Err # NoErr THEN MergeLoop(b, i + 1)
       ELSE LET m == MergeInFileIndex(b, result.Index, result.Filename)
            IN  MergeLoop([m EXCEPT !.nDocs = b.nDocs + 1], i + 1)

\* The comparator of the sort of ib.injested.
cmpFilename(a, b) == StrCompare(a.Filename, b.Filename)

\* InjestFiles with the results arriving in the order of filenames.
InjestFilesInOrder(fs, filenames) ==
  LET size == MaxSizeOf(fs, DOMAIN fs)
      items == [i \in 1..Len(filenames) |-> injestFile(fs, size, filenames[i])]
      sorted == CHOOSE t \in SortFunc(items, cmpFilename) : TRUE
  IN  MergeLoop([NewIndexBuilder EXCEPT !.injested = sorted], 1)

(***************************************************************************)
(* The reader alone: an index is loaded and queried                        *)
(***************************************************************************)
IdleBuild ==
  /\ filenamesIn = << >>
  /\ maxSize = 0
  /\ NThreads = 0
  /\ inCh = << >>
  /\ inChClosed = TRUE
  /\ produced = 0
  /\ worker = << >>
  /\ outChClosed = TRUE
  /\ collector = "serialized"
  /\ mergePos = 0
  /\ progress = [set |-> FALSE, closed |-> FALSE, observed |-> << >>]

\* The artifacts of a finished build of a directory are on disk.
InitQuery ==
  /\ \E n \in 0..MaxFiles :
       /\ fsys \in Corpora(n)
       /\ ib = InjestFilesInOrder(fsys, SubSeq(Names, 1, n))
  /\ disk = Serialize(ib, ib.injested, ib.nDocs)
  /\ IdleBuild
  /\ idx = NoIndex
  /\ indexCursor = 0
  /\ catalogCursor = 0
  /\ calls = << >>
  /\ IdleUnits

\* search: LoadIndexFromDisk at start-up.  Reading the two headers leaves
\* the cursors of the mapped files behind them.
Load ==
  /\ ~idx.loaded
  /\ LoadIndexFromDisk(disk).err = NoErr
  /\ idx' = LoadIndexFromDisk(disk).idx
  /\ indexCursor' = 20
  /\ catalogCursor' = 12 + 8 * Len(idx'.contentEntry)
  /\ UNCHANGED << fsys, unitVars, buildVars, ib, disk, calls >>

\* One call of QueryIndex, run from its first to its last statement.
Query ==
  /\ idx.loaded
  /\ calls = << >>
  /\ \E querywords \in Queries :
       LET run == QueryRun(idx, QueryCall(querywords), indexCursor) IN
       /\ indexCursor' = run.cur
       /\ \E ret \in QueryIndex(idx, querywords, indexCursor) :
            calls' = << [run.cs EXCEPT !.pc = "returned", !.ret = ret] >>
  /\ UNCHANGED << fsys, unitVars, buildVars, ib, disk, idx, catalogCursor >>

NextQuery == Load \/ Query

SpecQuery == InitQuery /\ [][NextQuery]_vars

(***************************************************************************)
(* Properties of the query engine                                          *)
(***************************************************************************)
Range(f) == { f[x] : x \in DOMAIN f }

\* What the builder indexed: the offsets of word in the file of index f.
Postings(word, f) ==
  IF word \in DOMAIN ib.wordIndex
       /\ \E i \in DOMAIN ib.wordIndex[word] :
            ib.wordIndex[word][i].FilenameStringIndex = f
  THEN LET i == CHOOSE j \in DOMAIN ib.wordIndex[word] :
                  ib.wordIndex[word][j].FilenameStringIndex = f
       IN  ib.wordIndex[word][i].Offsets
  ELSE << >>

RECURSIVE ConcatAll(_)
ConcatAll(seqs) ==
  IF seqs = << >> THEN << >> ELSE Head(seqs) \o ConcatAll(Tail(seqs))

IndexedFiles == 0..(Len(Flatten(ib.filenames)) - 1)

NotStopWord(w) == ~isStopWord(w)

\* The query of the call that returned, and what it returned.
Returned == calls # << >> /\ calls[1].pc = "returned"

\* For a query of non-stop words, the records a file's result must hold.
ExpectedMatches(q, f) ==
  ConcatAll([i \in 1..Len(q) |->
               [j \in 1..Len(Postings(ToLower(q[i]), f)) |->
                  [Word |-> q[i], Offset |-> Postings(ToLower(q[i]), f)[j]]]])

\* C1: QueryIndex is a strict AND.  For a query of one or more non-stop
\* words, the files returned are exactly the files in which every query
\* word (lower-cased) has a posting, each once, with the (word, offset)
\* records of all the terms and no other; intersectWordResults returns the
\* keys present in every map with the concatenation of their lists in map
\* order, and nil for no map (an empty query, which returns no file).
C1_StrictAnd ==
  Returned =>
    LET cs == calls[1]
        q == cs.querywords
        res == cs.ret.results
        sr == intersectWordResults(cs.qwres)
        keys == UNION { DOMAIN cs.qwres[i] : i \in 1..Len(cs.qwres) }
    IN  /\ (Len(q) > 0 /\ \A i \in 1..Len(q) : NotStopWord(q[i])) =>
             /\ cs.ret.err = NoErr /\ ~cs.ret.panic /\ ~cs.ret.isNil
             /\ { res[i].FilenameIndex : i \in 1..Len(res) }
                  = { f \in IndexedFiles :
                        \A i \in 1..Len(q) : Postings(ToLower(q[i]), f) # << >> }
             /\ \A i, j \in 1..Len(res) :
                  res[i].FilenameIndex = res[j].FilenameIndex => i = j
             /\ \A i \in 1..Len(res) :
                  /\ res[i].Filename = Flatten(ib.filenames)[res[i].FilenameIndex + 1]
                  /\ res[i].WordMatches
                       \in PermsOf(ExpectedMatches(q, res[i].FilenameIndex))
        /\ sr.isNil <=> (Len(cs.qwres) = 0)
        /\ Len(q) = 0 => cs.ret.results = << >>
        /\ DOMAIN sr.m
             = { k \in keys : \A i \in 1..Len(cs.qwres) : k \in DOMAIN cs.qwres[i] }
        /\ \A k \in DOMAIN sr.m :
             sr.m[k] = ConcatAll([i \in 1..Len(cs.qwres) |-> cs.qwres[i][k]])

\* C1 witness: a query of two different non-stop words returned a file and
\* left out a file that holds only the first word.
C1_Witness ==
  /\ Returned
  /\ Len(calls[1].querywords) = 2
  /\ \A i \in 1..2 : NotStopWord(calls[1].querywords[i])
  /\ ToLower(calls[1].querywords[1]) # ToLower(calls[1].querywords[2])
  /\ Len(calls[1].ret.results) = 1
  /\ \E f \in IndexedFiles :
       /\ Postings(ToLower(calls[1].querywords[1]), f) # << >>
       /\ Postings(ToLower(calls[1].querywords[2]), f) = << >>

\* C2: a stop word of the query is not required for membership: the call
\* returns what QueryIndex returns for the query without its stop words.
C2_StopWordsIgnored ==
  Returned =>
    calls[1].ret \in
      QueryIndex(idx, SelectSeq(calls[1].querywords, NotStopWord), indexCursor)

\* C3: when a non-stop query word is not in the vocabulary, whatever its
\* position, QueryIndex returns an empty list and a nil error.
C3_QueryMiss ==
  Returned =>
    LET q == calls[1].querywords IN
    (\E i \in 1..Len(q) :
        NotStopWord(q[i]) /\ ToLower(q[i]) \notin DOMAIN ib.wordIndex)
      => /\ calls[1].ret.results = << >>
         /\ calls[1].ret.err = NoErr
         /\ ~calls[1].ret.panic

\* C3 witness: the absent word is the second term and the first term has
\* matches.
C3_Witness ==
  /\ Returned
  /\ Len(calls[1].querywords) = 2
  /\ NotStopWord(calls[1].querywords[2])
  /\ ToLower(calls[1].querywords[2]) \notin DOMAIN ib.wordIndex
  /\ calls[1].qwres[1] # EmptyMap
  /\ calls[1].ret.results = << >>

\* C10: the results are in descending order of match count and, among
\* equal counts, in ascending order of filename; the order is strict, and
\* every value the call may return lists the same files in the same order.
C10_ResultOrder ==
  Returned =>
    LET res == calls[1].ret.results IN
    /\ \A i, j \in 1..Len(res) :
         i < j =>
           \/ Len(res[i].WordMatches) > Len(res[j].WordMatches)
           \/ /\ Len(res[i].WordMatches) = Len(res[j].WordMatches)
              /\ StrCompare(res[i].Filename, res[j].Filename) < 0
    /\ \A other \in QueryIndex(idx, calls[1].querywords, indexCursor) :
         [i \in 1..Len(other.results) |-> other.results[i].Filename]
           = [i \in 1..Len(res) |-> res[i].Filename]

\* C10 witness: two files with the same number of matches were returned.
C10_Witness ==
  /\ Returned
  /\ Len(calls[1].ret.results) = 2
  /\ Len(calls[1].ret.results[1].WordMatches)
       = Len(calls[1].ret.results[2].WordMatches)

(***************************************************************************)
(* The builder: InjestFiles and Serialize (builder.go)                     *)
(*                                                                         *)
(* The goroutines of InjestFiles: the producer of filenames, NThreads      *)
(* workers, the goroutine that waits for the workers and closes the output *)
(* channel, and InjestFiles itself, which collects, sorts and merges.      *)
(***************************************************************************)
IdleReader ==
  /\ idx = NoIndex
  /\ indexCursor = 0
  /\ catalogCursor = 0
  /\ calls = << >>

NoDisk == [written |-> FALSE]

NoData == [Filename |-> << >>, Index |-> EmptyMap, Len |-> 0,
           Compressed |-> << >>, Err |-> NoErr]

\* The state when InjestFiles has started its goroutines, for a directory
\* whose files are drawn from contents.
InitBuildWith(contents) ==
  /\ \E n \in 0..MaxFiles :
       /\ fsys \in [ { Names[i] : i \in 1..n } -> contents ]
       /\ filenamesIn = SubSeq(Names, 1, n)
  /\ maxSize = MaxSizeOf(fsys, DOMAIN fsys)
  /\ NThreads \in 1..MaxThreads
  /\ inCh = << >>
  /\ inChClosed = FALSE
  /\ produced = 0
  /\ worker = [w \in 1..NThreads |-> [pc |-> "recv", outData |-> NoData]]
  /\ outChClosed = FALSE
  /\ collector = "collect"
  /\ ib = NewIndexBuilder
  /\ mergePos = 0
  /\ \E set \in BOOLEAN :
       progress = [set |-> set, closed |-> FALSE, observed |-> << >>]
  /\ disk = NoDisk
  /\ IdleReader
  /\ IdleUnits

InitBuild == InitBuildWith(FileContents)

\* inCh <- file
ProducerSend ==
  /\ produced < Len(filenamesIn)
  /\ Len(inCh) < NThreads
  /\ inCh' = Append(inCh, filenamesIn[produced + 1])
  /\ produced' = produced + 1
  /\ UNCHANGED << fsys, unitVars, filenamesIn, maxSize, NThreads, inChClosed, worker, outChClosed,
                  collector, mergePos, progress, ib, disk, readerVars >>

\* A variant of ProducerClose that closes inCh before the last filename is
\* sent.
ProducerClose_early ==
  /\ ~inChClosed
  /\ inChClosed' = TRUE
  /\ UNCHANGED << fsys, unitVars, filenamesIn, maxSize, NThreads, inCh, produced, worker,
                  outChClosed, collector, mergePos, progress, ib, disk,
                  readerVars >>

\* close(inCh)
ProducerClose ==
  /\ produced = Len(filenamesIn)
  /\ ~inChClosed
  /\ inChClosed' = TRUE
  /\ UNCHANGED << fsys, unitVars, filenamesIn, maxSize, NThreads, inCh, produced, worker,
                  outChClosed, collector, mergePos, progress, ib, disk,
                  readerVars >>

\* A worker takes a filename from inCh and ingests the file; it then waits
\* to send outData.
WorkerRecv(w) ==
  /\ worker[w].pc = "recv"
  /\ inCh # << >>
  /\ inCh' = Tail(inCh)
  /\ worker' = [worker EXCEPT ![w] =
                  [pc |-> "send",
                   outData |-> injestFile(fsys, maxSize, Head(inCh))]]
  /\ UNCHANGED << fsys, unitVars, filenamesIn, maxSize, NThreads, inChClosed, produced,
                  outChClosed, collector, mergePos, progress, ib, disk,
                  readerVars >>

\* The range over inCh ends: wg.Done().
WorkerExit(w) ==
  /\ worker[w].pc = "recv"
  /\ inCh = << >>
  /\ inChClosed
  /\ worker' = [worker EXCEPT ![w].pc = "exited"]
  /\ UNCHANGED << fsys, unitVars, filenamesIn, maxSize, NThreads, inCh, inChClosed, produced,
                  outChClosed, collector, mergePos, progress, ib, disk,
                  readerVars >>

workersDone_any == \E w \in DOMAIN worker : worker[w].pc = "exited"

\* wg.Wait() returns: wg.Add(ib.NThreads) was matched by as many wg.Done().
workersDone == \A w \in DOMAIN worker : worker[w].pc = "exited"

\* close(outCh)
CloseOut ==
  /\ workersDone
  /\ ~outChClosed
  /\ outChClosed' = TRUE
  /\ UNCHANGED << fsys, unitVars, filenamesIn, maxSize, NThreads, inCh, inChClosed, produced,
                  worker, collector, mergePos, progress, ib, disk, readerVars >>

\* outCh is unbuffered: the send of worker w and the receive of the
\* collector are one step.  The collector appends the result.
CollectorRecv(w) ==
  /\ collector = "collect"
  /\ ~outChClosed
  /\ worker[w].pc = "send"
  /\ ib' = [ib EXCEPT !.injested = Append(ib.injested, worker[w].outData)]
  /\ worker' = [worker EXCEPT ![w] = [pc |-> "recv", outData |-> NoData]]
  /\ collector' = IF progress.set THEN "update1" ELSE "collect"
  /\ UNCHANGED << fsys, unitVars, filenamesIn, maxSize, NThreads, inCh, inChClosed, produced,
                  outChClosed, mergePos, progress, disk, readerVars >>

\* injestUpdate in phase 1: the observer, which ranges over the progress
\* channel, receives the update of the result just appended.
InjestUpdate1 ==
  /\ collector = "update1"
  /\ LET result == ib.injested[Len(ib.injested)] IN
     progress' = [progress EXCEPT !.observed =
                    Append(progress.observed,
                           [Filename |-> result.Filename,
                            Success |-> result.Err = NoErr, Phase |-> 1])]
  /\ collector' = "collect"
  /\ UNCHANGED << fsys, unitVars, filenamesIn, maxSize, NThreads, inCh, inChClosed, produced,
                  worker, outChClosed, mergePos, ib, disk, readerVars >>

sortInjested_arrival(items) == { items }

\* slices.SortFunc(ib.injested, ...) by filename.
sortInjested(items) == SortFunc(items, cmpFilename)

\* The range over outCh ends; the results are sorted.
CollectorSort ==
  /\ collector = "collect"
  /\ outChClosed
  /\ \E sorted \in sortInjested(ib.injested) :
       ib' = [ib EXCEPT !.injested = sorted]
  /\ collector' = "merge"
  /\ mergePos' = 1
  /\ UNCHANGED << fsys, unitVars, filenamesIn, maxSize, NThreads, inCh, inChClosed, produced,
                  worker, outChClosed, progress, disk, readerVars >>

\* One iteration of the merge loop.
MergeStep ==
  /\ collector = "merge"
  /\ mergePos <= Len(ib.injested)
  /\ LET result == ib.injested[mergePos] IN
     IF result.Err # NoErr
     THEN /\ mergePos' = mergePos + 1
          /\ UNCHANGED << ib, collector >>
     ELSE /\ ib' = [MergeInFileIndex(ib, result.Index, result.Filename)
                      EXCEPT !.nDocs = ib.nDocs + 1]
          /\ IF progress.set
             THEN collector' = "update2" /\ UNCHANGED mergePos
             ELSE mergePos' = mergePos + 1 /\ UNCHANGED collector
  /\ UNCHANGED << fsys, unitVars, filenamesIn, maxSize, NThreads, inCh, inChClosed, produced,
                  worker, outChClosed, progress, disk, readerVars >>

\* injestUpdate in phase 2.
InjestUpdate2 ==
  /\ collector = "update2"
  /\ progress' = [progress EXCEPT !.observed =
                    Append(progress.observed,
                           [Filename |-> ib.injested[mergePos].Filename,
                            Success |-> TRUE, Phase |-> 2])]
  /\ collector' = "merge"
  /\ mergePos' = mergePos + 1
  /\ UNCHANGED << fsys, unitVars, filenamesIn, maxSize, NThreads, inCh, inChClosed, produced,
                  worker, outChClosed, ib, disk, readerVars >>

\* The merge loop ends: the progress channel is closed, InjestFiles returns.
InjestReturn ==
  /\ collector = "merge"
  /\ mergePos > Len(ib.injested)
  /\ progress' = [progress EXCEPT !.closed = progress.set]
  /\ collector' = "ingested"
  /\ UNCHANGED << fsys, unitVars, filenamesIn, maxSize, NThreads, inCh, inChClosed, produced,
                  worker, outChClosed, mergePos, ib, disk, readerVars >>

\* IndexBuilder.Serialize
SerializeIndex ==
  /\ collector = "ingested"
  /\ disk' = Serialize(ib, ib.injested, ib.nDocs)
  /\ collector' = "serialized"
  /\ UNCHANGED << fsys, unitVars, filenamesIn, maxSize, NThreads, inCh, inChClosed, produced,
                  worker, outChClosed, mergePos, progress, ib, readerVars >>

NextBuild ==
  \/ ProducerSend
  \/ ProducerClose
  \/ \E w \in DOMAIN worker : WorkerRecv(w)
  \/ \E w \in DOMAIN worker : WorkerExit(w)
  \/ CloseOut
  \/ \E w \in DOMAIN worker : CollectorRecv(w)
  \/ InjestUpdate1
  \/ CollectorSort
  \/ MergeStep
  \/ InjestUpdate2
  \/ InjestReturn
  \/ SerializeIndex

SpecBuild == InitBuild /\ [][NextBuild]_vars

(***************************************************************************)
(* The reader under the HTTP server: every request runs in a goroutine of  *)
(* its own, on the one Index of the server                                 *)
(***************************************************************************)
\* What the files of the served directory hold.
ServedContents ==
  { [kind |-> "ok", body |-> Body1],
    [kind |-> "ok", body |-> Body2] }

\* The requests: a query of one word.
ServedWords == { <<"f","o","x">> }

ServedQueries == { << w >> : w \in ServedWords }

InitServe ==
  /\ \E n \in 1..MaxFiles :
       /\ fsys \in [ { Names[i] : i \in 1..n } -> ServedContents ]
       /\ ib = InjestFilesInOrder(fsys, SubSeq(Names, 1, n))
  /\ disk = Serialize(ib, ib.injested, ib.nDocs)
  /\ IdleBuild
  /\ IdleReader
  /\ IdleUnits

\* serveSearch calls QueryIndex(strings.Split(query, " ")).
StartQuery ==
  /\ idx.loaded
  /\ Len(calls) < MaxCalls
  /\ \E querywords \in ServedQueries :
       calls' = Append(calls, QueryCall(querywords))
  /\ UNCHANGED << fsys, unitVars, buildVars, ib, disk, idx, indexCursor, catalogCursor >>

\* retrieveEmail calls CatalogContent with the index of the request.
StartContent ==
  /\ idx.loaded
  /\ Len(calls) < MaxCalls
  /\ \E filenameIdx \in -1..Len(idx.filenames) :
       calls' = Append(calls, ContentCall(filenameIdx))
  /\ UNCHANGED << fsys, unitVars, buildVars, ib, disk, idx, indexCursor, catalogCursor >>

\* A call of QueryIndex runs up to its next use of idx.indexRdr.
QueryIndexStep(i) ==
  /\ calls[i].op = "QueryIndex"
  /\ calls[i].pc \notin { "finish", "returned" }
  /\ LET n == QueryStep(idx, calls[i], indexCursor) IN
     /\ calls' = [calls EXCEPT ![i] = n.cs]
     /\ indexCursor' = n.cur
  /\ UNCHANGED << fsys, unitVars, buildVars, ib, disk, idx, catalogCursor >>

\* A call of QueryIndex intersects, sorts and returns.
QueryIndexReturn(i) ==
  /\ calls[i].op = "QueryIndex"
  /\ calls[i].pc = "finish"
  /\ \E ret \in QueryFinish(idx, calls[i]) :
       calls' = [calls EXCEPT ![i] = [@ EXCEPT !.pc = "returned", !.ret = ret]]
  /\ UNCHANGED << fsys, unitVars, buildVars, ib, disk, idx, indexCursor, catalogCursor >>

\* A call of CatalogContent runs up to its next use of idx.catalogRdr.
ContentStep(i) ==
  /\ calls[i].op = "CatalogContent"
  /\ calls[i].pc # "returned"
  /\ LET n == CatalogContentStep(idx, calls[i], catalogCursor) IN
     /\ calls' = [calls EXCEPT ![i] = n.cs]
     /\ catalogCursor' = n.cur
  /\ UNCHANGED << fsys, unitVars, buildVars, ib, disk, idx, indexCursor >>

NextServe ==
  \/ Load
  \/ StartQuery
  \/ StartContent
  \/ \E i \in DOMAIN calls : QueryIndexStep(i)
  \/ \E i \in DOMAIN calls : QueryIndexReturn(i)
  \/ \E i \in DOMAIN calls : ContentStep(i)

SpecServe == InitServe /\ [][NextServe]_vars

\* C4: the reader is safe for concurrent readers.  In every interleaving
\* of QueryIndex and CatalogContent calls on one loaded Index, a call that
\* returned has returned a value it returns when it runs alone.
C4_ConcurrentReaders ==
  \A i \in DOMAIN calls :
    calls[i].pc = "returned" =>
      IF calls[i].op = "QueryIndex"
      THEN calls[i].ret \in QueryIndex(idx, calls[i].querywords, 20)
      ELSE calls[i].ret = CatalogContent(idx, calls[i].filenameIdx,
                                         12 + 8 * Len(idx.contentEntry))

\* The pipeline alone: what a file holds matters to its goroutines only as
\* far as the worker takes the early exit of a failed open or not.
PipelineContents ==
  { [kind |-> "ok", body |-> << "f", "o", "x" >>],
    [kind |-> "open_err", body |-> << >>] }

InitPipeline == InitBuildWith(PipelineContents)

\* The steps of InjestFiles and of its goroutines.
NextInjest ==
  \/ ProducerSend
  \/ ProducerClose
  \/ \E w \in DOMAIN worker : WorkerRecv(w)
  \/ \E w \in DOMAIN worker : WorkerExit(w)
  \/ CloseOut
  \/ \E w \in DOMAIN worker : CollectorRecv(w)
  \/ InjestUpdate1
  \/ CollectorSort
  \/ MergeStep
  \/ InjestUpdate2
  \/ InjestReturn

\* The scheduler runs a goroutine of InjestFiles that can take a step.
SpecBuildFair == InitPipeline /\ [][NextBuild]_vars /\ WF_vars(NextInjest)

(***************************************************************************)
(* Properties of the build                                                 *)
(***************************************************************************)
InjestDone == collector \in { "ingested", "serialized" }

Phase1Names ==
  LET ph1 == SelectSeq(progress.observed, LAMBDA u : u.Phase = 1)
  IN  [i \in 1..Len(ph1) |-> ph1[i].Filename]

FailedFiles == { f \in DOMAIN fsys : fsys[f].kind # "ok" }

ExactlyOnePerFile ==
  /\ Len(ib.injested) = Len(filenamesIn)
  /\ \A i \in DOMAIN filenamesIn :
       Cardinality({ j \in DOMAIN ib.injested :
                       ib.injested[j].Filename = filenamesIn[i] }) = 1

\* C6: the ingestion pipeline runs to completion.  Under a fair scheduler
\* InjestFiles always returns (no deadlock, zero files included), and from
\* then on the collector holds exactly one ingested item per input filename.
C6_PipelineCompletes == <>[](InjestDone /\ ExactlyOnePerFile)

\* InjestFiles returned for as many files as the bound allows, more files
\* than the input channel holds, a failed one among them.
C6_Witness ==
  /\ collector = "ingested"
  /\ ExactlyOnePerFile
  /\ Len(filenamesIn) = MaxFiles
  /\ Len(filenamesIn) > NThreads
  /\ FailedFiles # {}
  /\ inChClosed /\ outChClosed /\ workersDone

\* C7: a per-file failure is recorded.  The item of a file that cannot be
\* opened, parsed or read carries a non-nil error and its progress update
\* reports Success = false; the other files are still ingested; the failed
\* file contributes no postings.
C7_FailureRecorded ==
  /\ \A i \in DOMAIN ib.injested :
       ib.injested[i].Filename \in FailedFiles => ib.injested[i].Err # NoErr
  /\ \A i \in DOMAIN progress.observed :
       (progress.observed[i].Phase = 1
          /\ progress.observed[i].Filename \in FailedFiles)
         => ~progress.observed[i].Success
  /\ InjestDone =>
       /\ ExactlyOnePerFile
       /\ \A i \in DOMAIN ib.injested :
            ib.injested[i].Filename \in FailedFiles
              => ib.injested[i].Index = EmptyMap
       /\ \A f \in FailedFiles, word \in DOMAIN ib.wordIndex :
            StringSetIndex(ib.filenames, f).ok =>
              \A k \in DOMAIN ib.wordIndex[word] :
                ib.wordIndex[word][k].FilenameStringIndex
                  # StringSetIndex(ib.filenames, f).idx

CatalogNumEntries == ReadBigEndian(disk.corpusCat, 8, 4)

CatalogEntry(fidx) ==
  [Offset |-> ReadBigEndian(disk.corpusCat, 12 + 8 * fidx, 4),
   Length |-> ReadBigEndian(disk.corpusCat, 12 + 8 * fidx + 4, 4)]

\* C8: filename indices stay dense over all input files.  After the build
\* the filenames table has as many entries as there were input files and as
\* the catalog directory, every input file has a filename index, and the
\* catalog entry of a failed file is (0, 0).
C8_DenseFilenameIndices ==
  collector = "serialized" =>
    /\ Len(Flatten(ib.filenames)) = Len(filenamesIn)
    /\ Len(disk.filenamesSid.strings) = CatalogNumEntries
    /\ \A i \in DOMAIN filenamesIn :
         StringSetIndex(ib.filenames, filenamesIn[i]).ok
    /\ \A f \in FailedFiles :
         StringSetIndex(ib.filenames, f).ok =>
           CatalogEntry(StringSetIndex(ib.filenames, f).idx)
             = [Offset |-> 0, Length |-> 0]

\* C9: CorpusSize, in the header of corpus.index and as the reader reports
\* it, is the number of input files opened, parsed and read without error.
C9_CorpusSize ==
  collector = "serialized" =>
    /\ ReadBigEndian(disk.corpusIndex, 16, 4)
         = Cardinality(DOMAIN fsys \ FailedFiles)
    /\ LoadIndexFromDisk(disk).err = NoErr
    /\ LoadIndexFromDisk(disk).idx.CorpusSize
         = Cardinality(DOMAIN fsys \ FailedFiles)

(***************************************************************************)
(* Further properties of the query engine                                  *)
(***************************************************************************)
\* C11: in every file result of QueryIndex, WordMatches is in ascending
\* order of offset, whatever the order of the terms in the query.
C11_MatchesByOffset ==
  Returned =>
    \A r \in DOMAIN calls[1].ret.results :
      LET wm == calls[1].ret.results[r].WordMatches IN
      \A i, j \in DOMAIN wm : i < j => wm[i].Offset <= wm[j].Offset

\* C11 witness: the second query word occurs in the body before the first,
\* and its record comes first.
C11_Witness ==
  /\ Returned
  /\ Len(calls[1].querywords) = 2
  /\ calls[1].ret.results # << >>
  /\ LET wm == calls[1].ret.results[1].WordMatches IN
     /\ Len(wm) >= 2
     /\ wm[1].Word = calls[1].querywords[2]
     /\ wm[1].Offset < wm[2].Offset
     /\ wm[2].Word = calls[1].querywords[1]

(***************************************************************************)
(* The tokeniser on its own: splitText and computeFileIndex                *)
(***************************************************************************)
MaxTextLen == 4

MaxWords == 2

\* A lower-case letter, an upper-case letter, a digit and two separators.
Alphabet == { "a", "Z", "7", " ", "," }

CharTexts == UNION { [1..n -> Alphabet] : n \in 0..MaxTextLen }

\* Words of a body: stop words in two cases, short words, words that are
\* indexed, a word with a digit.
WordPool ==
  { <<"t","h","e">>, <<"T","h","e">>, <<"f","o","x">>, <<"F","o","x">>,
    <<"o","x">>, <<"t","o","a","d">>, <<"a","4">> }

RECURSIVE JoinWords(_)
JoinWords(ws) ==
  IF ws = << >> THEN << >>
  ELSE IF Len(ws) = 1 THEN ws[1]
  ELSE ws[1] \o << " " >> \o JoinWords(Tail(ws))

WordTexts == { JoinWords(ws) : ws \in UNION { [1..n -> WordPool] : n \in 1..MaxWords } }

\* Nothing is built, written or loaded.
IdleBuilder ==
  /\ fsys = EmptyMap
  /\ ib = NewIndexBuilder
  /\ disk = NoDisk
  /\ IdleBuild
  /\ IdleReader

InitText ==
  /\ text \in CharTexts \cup WordTexts
  /\ tokens = NoTokens
  /\ IdleTrie
  /\ IdleTable
  /\ IdleSets
  /\ IdleSer
  /\ IdleBuilder

\* for s := range splitText(text): the spans yielded, in order.
SplitText ==
  /\ ~tokens.done
  /\ tokens' = [done |-> TRUE, op |-> "splitText", spans |-> splitText(text)]
  /\ UNCHANGED << fsys, buildVars, ib, disk, readerVars, text, trieVars, tableVars, setVars, ser >>

\* computeFileIndex(content)
ComputeFileIndex ==
  /\ ~tokens.done
  /\ tokens' = [done |-> TRUE, op |-> "computeFileIndex",
                spans |-> splitText(text), index |-> computeFileIndex(text)]
  /\ UNCHANGED << fsys, buildVars, ib, disk, readerVars, text, trieVars, tableVars, setVars, ser >>

\* ib.MergeInFileIndex(index, filename) of the index just computed.
MergeText ==
  /\ tokens.done
  /\ tokens.op = "computeFileIndex"
  /\ ib = NewIndexBuilder
  /\ ib' = MergeInFileIndex(ib, tokens.index, Names[1])
  /\ UNCHANGED << fsys, buildVars, disk, readerVars, unitVars >>

NextText == SplitText \/ ComputeFileIndex \/ MergeText

SpecText == InitText /\ [][NextText]_vars

IsWordChar(c) == IsLetter(c) \/ IsDigit(c)

\* The maximal runs of letters and digits of a text, as (start, end) spans.
MaximalRuns(t) ==
  { sp \in [start : 0..Len(t), end : 0..Len(t)] :
      /\ sp.start < sp.end
      /\ \A k \in (sp.start + 1)..sp.end : IsWordChar(t[k])
      /\ sp.start = 0 \/ ~IsWordChar(t[sp.start])
      /\ sp.end = Len(t) \/ ~IsWordChar(t[sp.end + 1]) }

\* C12: splitText emits, in source order, exactly the maximal runs of
\* letters and digits: the spans are non-empty, pairwise disjoint and in
\* ascending order, hold no separator and cover every letter and digit.
C12_SplitTextMaximalRuns ==
  (tokens.done /\ tokens.op = "splitText") =>
    LET spans == tokens.spans IN
    /\ \A i \in DOMAIN spans : spans[i].end > spans[i].start
    /\ \A i, j \in DOMAIN spans : i < j => spans[i].end <= spans[j].start
    /\ { spans[i] : i \in DOMAIN spans } = MaximalRuns(text)
    /\ \A k \in DOMAIN text :
         IsWordChar(text[k]) <=>
           \E i \in DOMAIN spans : spans[i].start < k /\ k <= spans[i].end

\* The token of a span.
TokenOf(t, span) == SubSeq(t, span.start + 1, span.end)

\* A token passes the vocabulary filter.
Indexable(word) == Len(word) >= 3 /\ ToLower(word) \notin stopWords

VocabularyWord(w) == w = ToLower(w) /\ Len(w) >= 3 /\ w \notin stopWords

RECURSIVE DecodeOffsets(_, _, _, _)
DecodeOffsets(data, pos, n, acc) ==
  IF n = 0 THEN [offsets |-> acc, pos |-> pos]
  ELSE LET r == ReadUvarint(data, pos)
       IN  DecodeOffsets(data, r.pos, n - 1, Append(acc, r.val))

\* The matches of a posting list, read as QueryIndex reads them.
RECURSIVE DecodeMatches(_, _, _, _)
DecodeMatches(data, pos, n, acc) ==
  IF n = 0 THEN acc
  ELSE LET fidx == ReadUvarint(data, pos)
           numoff == ReadUvarint(data, fidx.pos)
           offs == DecodeOffsets(data, numoff.pos, numoff.val, << >>)
       IN  DecodeMatches(data, offs.pos, n - 1,
                         Append(acc, [FilenameStringIndex |-> fidx.val,
                                      Offsets |-> offs.offsets]))

\* The posting list at a position of the main index.
DecodePostingList(data, pos) ==
  LET numMatches == ReadUvarint(data, pos)
  IN  DecodeMatches(data, numMatches.pos, numMatches.val, << >>)

\* The input files that hold the word w: the file was ingested and the
\* tokeniser and the vocabulary filter find w in its body.
FilesHolding(w) ==
  { f \in DOMAIN fsys :
      fsys[f].kind = "ok" /\ w \in DOMAIN computeFileIndex(fsys[f].body) }

\* A query changes neither the artifacts nor the loaded tables: they are
\* examined in the states between the load and the first call.

\* C14: the posting list decoded from the main index at the offset of a
\* vocabulary word has one match per file that holds the word, none
\* missing and none twice, in strictly ascending order of filename index.
C14_PostingListPerFile ==
  idx.loaded /\ calls = << >> =>
    \A w \in DOMAIN idx.wordsToOffsets :
      LET list == DecodePostingList(idx.indexRdr, idx.wordsToOffsets[w]) IN
      /\ \A i, j \in DOMAIN list :
           i < j => list[i].FilenameStringIndex < list[j].FilenameStringIndex
      /\ \A i \in DOMAIN list :
           list[i].FilenameStringIndex < Len(idx.filenames)
      /\ { idx.filenames[list[i].FilenameStringIndex + 1] : i \in DOMAIN list }
           = FilesHolding(w)
      /\ Len(list) = Cardinality(FilesHolding(w))

\* C14 witness: a word held by two files, and a word held by the second
\* file only.
C14_Witness ==
  /\ idx.loaded
  /\ \E w \in DOMAIN idx.wordsToOffsets : Cardinality(FilesHolding(w)) = 2
  /\ \E w \in DOMAIN idx.wordsToOffsets :
       FilesHolding(w) = { idx.filenames[2] }

\* C15: in every match of every posting list the offsets are non-empty
\* and strictly ascending, and each is a byte position inside the body of
\* the file of the match: 0 <= offset < the uncompressed length that the
\* catalog stores for the file.
C15_OffsetsInsideBody ==
  idx.loaded /\ calls = << >> =>
    \A w \in DOMAIN idx.wordsToOffsets :
      LET list == DecodePostingList(idx.indexRdr, idx.wordsToOffsets[w]) IN
      \A i \in DOMAIN list :
        LET offs == list[i].Offsets
            fidx == list[i].FilenameStringIndex
        IN  /\ offs # << >>
            /\ \A a, b \in DOMAIN offs : a < b => offs[a] < offs[b]
            /\ fidx < Len(idx.contentEntry)
            /\ \A a \in DOMAIN offs :
                 0 <= offs[a] /\ offs[a] < idx.contentEntry[fidx + 1].Length

\* C15 witness: a match of two offsets, in the file of index 1, whose last
\* word starts three bytes before the end of the body.
C15_Witness ==
  /\ idx.loaded
  /\ \E w \in DOMAIN idx.wordsToOffsets :
       LET list == DecodePostingList(idx.indexRdr, idx.wordsToOffsets[w]) IN
       \E i \in DOMAIN list :
         /\ list[i].FilenameStringIndex = 1
         /\ Len(list[i].Offsets) = 2
         /\ list[i].Offsets[2] + 3 = idx.contentEntry[2].Length

\* The bytes of the posting list of a word in corpus.index.
PostingListBytes(word) ==
  PutUvarint(Len(ib.wordIndex[word])) \o encodeMatches(ib.wordIndex[word])

\* Where the posting list of a word starts: behind the header of 20 bytes
\* and the lists of the words that sort before it.
PostingListStart(word) ==
  LET before == { v \in DOMAIN ib.wordIndex : StrCompare(v, word) < 0 }
      sorted == SortedStrings(before)
  IN  20 + SumSeq([i \in DOMAIN sorted |-> Len(PostingListBytes(sorted[i]))])

\* C16: the word-offset directory is a bijection with the vocabulary.  It
\* has one entry per word of the words table, entry i carries word index
\* i, and its offset is past the header of the main index and is where the
\* posting list of words[i] starts; the reader's map has one entry per
\* word, and decoding at it yields the postings of that word.
C16_WordOffsetsBijection ==
  idx.loaded /\ calls = << >> =>
    /\ Len(idx.offsets) = Len(idx.words)
    /\ DOMAIN idx.wordsToOffsets = { idx.words[i] : i \in DOMAIN idx.words }
    /\ Cardinality(DOMAIN idx.wordsToOffsets) = Len(idx.words)
    /\ DOMAIN idx.wordsToOffsets = DOMAIN ib.wordIndex
    /\ \A i \in DOMAIN idx.offsets :
         /\ idx.offsets[i].WordIndex = i - 1
         /\ idx.offsets[i].Offset >= 20
         /\ idx.offsets[i].Offset = PostingListStart(idx.words[i])
         /\ idx.wordsToOffsets[idx.words[i]] = idx.offsets[i].Offset
         /\ DecodePostingList(idx.indexRdr, idx.offsets[i].Offset)
              = ib.wordIndex[idx.words[i]]

\* C16 witness: a word inserted after another sorts before it, so its
\* posting list is written first.
C16_Witness ==
  /\ idx.loaded
  /\ \E i, j \in DOMAIN idx.words :
       /\ i < j
       /\ StrCompare(idx.words[i], idx.words[j]) > 0
       /\ idx.offsets[i].Offset > idx.offsets[j].Offset


(***************************************************************************)
(* The catalog read back: CatalogContent on the artifacts of a build       *)
(***************************************************************************)
\* What a file of the directory may be when the catalog is read back: among
\* the messages, one whose body is empty.
CatalogContents ==
  { [kind |-> "ok", body |-> Body1],
    [kind |-> "ok", body |-> Body2],
    [kind |-> "ok", body |-> << >>],
    [kind |-> "open_err", body |-> << >>],
    [kind |-> "parse_err", body |-> << >>] }

InitCatalog ==
  /\ \E n \in 0..MaxFiles :
       /\ fsys \in [ { Names[i] : i \in 1..n } -> CatalogContents ]
       /\ ib = InjestFilesInOrder(fsys, SubSeq(Names, 1, n))
  /\ disk = Serialize(ib, ib.injested, ib.nDocs)
  /\ IdleBuild
  /\ IdleReader
  /\ IdleUnits

\* retrieveEmail: one call of CatalogContent, run from its first to its
\* last statement; a later call finds the cursor where this one left it.
Content ==
  /\ idx.loaded
  /\ Len(calls) < MaxCalls
  /\ \E filenameIdx \in -1..Len(idx.contentEntry) :
       LET s1 == CatalogContentStep(idx, ContentCall(filenameIdx),
                                    catalogCursor)
           s2 == IF s1.cs.pc = "returned" THEN s1
                 ELSE CatalogContentStep(idx, s1.cs, s1.cur)
       IN  /\ calls' = Append(calls, s2.cs)
           /\ catalogCursor' = s2.cur
  /\ UNCHANGED << fsys, unitVars, buildVars, ib, disk, idx, indexCursor >>

NextCatalog == Load \/ Content

SpecCatalog == InitCatalog /\ [][NextCatalog]_vars

\* The file behind a filename index of the loaded index.
FileOf(fidx) == fsys[idx.filenames[fidx + 1]]

\* C17: for every successfully ingested file, CatalogContent(fidx) returns
\* ok = true, the file's own name and exactly its body, whose length is the
\* uncompressed length stored in the catalog; for a filename index outside
\* [0, |filenames|) it returns ok = false.
C17_CatalogRoundTrip ==
  \A i \in DOMAIN calls :
    LET c == calls[i]
        fidx == c.filenameIdx
    IN  c.op = "CatalogContent" =>
          /\ (fidx < 0 \/ fidx >= Len(idx.filenames)) => ~c.ret.ok
          /\ (fidx >= 0 /\ fidx < Len(idx.filenames)
                /\ FileOf(fidx).kind = "ok") =>
               /\ c.ret.ok
               /\ c.ret.filename = idx.filenames[fidx + 1]
               /\ c.ret.content = Bytes(FileOf(fidx).body)
               /\ Len(c.ret.content) = idx.contentEntry[fidx + 1].Length

\* The same statement for the messages whose body is not empty.
C17_NonEmptyBodies ==
  \A i \in DOMAIN calls :
    LET c == calls[i]
        fidx == c.filenameIdx
    IN  c.op = "CatalogContent" =>
          /\ (fidx < 0 \/ fidx >= Len(idx.filenames)) => ~c.ret.ok
          /\ (fidx >= 0 /\ fidx < Len(idx.filenames)
                /\ FileOf(fidx).kind = "ok" /\ FileOf(fidx).body # << >>) =>
               /\ c.ret.ok
               /\ c.ret.filename = idx.filenames[fidx + 1]
               /\ c.ret.content = Bytes(FileOf(fidx).body)
               /\ Len(c.ret.content) = idx.contentEntry[fidx + 1].Length


(***************************************************************************)
(* The trie on its own: insert, look up, serialise, deserialise            *)
(***************************************************************************)
MaxInserts == 3

\* The words given to InsertWord: the blank word, a word and a proper
\* prefix of it, a word with a rune of two bytes.
TrieWords ==
  { << >>, <<"a">>, <<"a","b">>, <<"b">>, <<"a", EAcute>> }

\* The arguments of Has and WithPrefix.
TrieProbes ==
  TrieWords \cup { <<"c">>, <<"a","b","c">>, << EAcute >> }

InitTrie ==
  /\ IdleBuilder
  /\ text = << >>
  /\ tokens = NoTokens
  /\ IdleTrie
  /\ IdleTable
  /\ IdleSets
  /\ IdleSer

\* t.InsertWord(w).  The trie is serialised once, after the last insert
\* (buildAndWritePrefixTree).
TrieInsert ==
  /\ ~trieFile.written
  /\ Len(inserted) < MaxInserts
  /\ \E w \in TrieWords :
       /\ trie' = InsertWord(trie, w)
       /\ inserted' = Append(inserted, w)
  /\ lookup' = NoLookup
  /\ UNCHANGED << fsys, buildVars, ib, disk, readerVars, text, tokens, tableVars, setVars, ser,
                  trieFile, loadedTrie >>

\* t.Serialize(w)
TrieWrite ==
  /\ ~trieFile.written
  /\ trieFile' = [written |-> TRUE, data |-> TrieSerialize(trie)]
  /\ UNCHANGED << fsys, buildVars, ib, disk, readerVars, text, tokens, tableVars, setVars, ser,
                  trie, inserted, loadedTrie, lookup >>

\* DeserializeTrie(rdr)
TrieRead ==
  /\ trieFile.written
  /\ ~loadedTrie.loaded
  /\ DeserializeTrie(trieFile.data).err = NoErr
  /\ loadedTrie' = [loaded |-> TRUE, trie |-> DeserializeTrie(trieFile.data).trie]
  /\ UNCHANGED << fsys, buildVars, ib, disk, readerVars, text, tokens, tableVars, setVars, ser,
                  trie, inserted, trieFile, lookup >>

\* The tries a lookup may be made on.
LookupTries ==
  IF loadedTrie.loaded
  THEN [on \in { "built", "loaded" } |->
          IF on = "built" THEN trie ELSE loadedTrie.trie]
  ELSE [on \in { "built" } |-> trie]

\* t.Has(w)
TrieHas ==
  /\ \E on \in DOMAIN LookupTries, w \in TrieProbes :
       lookup' = [op |-> "Has", on |-> on, w |-> w,
                  ret |-> Has(LookupTries[on], w)]
  /\ UNCHANGED << fsys, buildVars, ib, disk, readerVars, text, tokens, tableVars, setVars, ser,
                  trie, inserted, trieFile, loadedTrie >>

\* t.WithPrefix(prefix)
TrieWithPrefix ==
  /\ \E on \in DOMAIN LookupTries, prefix \in TrieProbes :
       \E ret \in WithPrefix(LookupTries[on], prefix) :
         lookup' = [op |-> "WithPrefix", on |-> on, w |-> prefix, ret |-> ret]
  /\ UNCHANGED << fsys, buildVars, ib, disk, readerVars, text, tokens, tableVars, setVars, ser,
                  trie, inserted, trieFile, loadedTrie >>

NextTrie == TrieInsert \/ TrieWrite \/ TrieRead \/ TrieHas \/ TrieWithPrefix

SpecTrie == InitTrie /\ [][NextTrie]_vars

\* strings.HasPrefix
StartsWith(w, p) == Len(p) <= Len(w) /\ SubSeq(w, 1, Len(p)) = p

NoDuplicates(s) == \A i, j \in DOMAIN s : s[i] = s[j] => i = j

\* C19: after inserting the words of S, in any order and with duplicates,
\* Has(w) is true exactly for the words of S (a proper prefix of a word, or
\* the blank word, that was not inserted is no word), and WithPrefix(p)
\* returns, without duplicates, exactly the words of S that start with p:
\* all of S for the empty prefix, nothing for a prefix that has no node.
C19_TrieExact ==
  LET S == Range(inserted) IN
  lookup.op # "none" /\ lookup.on = "built" =>
    /\ lookup.op = "Has" => (lookup.ret <=> lookup.w \in S)
    /\ lookup.op = "WithPrefix" =>
         /\ NoDuplicates(lookup.ret)
         /\ Range(lookup.ret) = { w \in S : StartsWith(w, lookup.w) }

\* Has answered false for the proper prefix "a" of the inserted word "ab",
\* which was inserted twice.
C19_Witness ==
  /\ lookup.op = "Has" /\ lookup.on = "built"
  /\ lookup.w = <<"a">> /\ ~lookup.ret
  /\ inserted = << <<"a","b">>, <<"b">>, <<"a","b">> >>

\* C20: the trie read back from the bytes of Serialize answers Has(w) as the
\* trie that was serialised, for every w.
C20_TrieRoundTrip ==
  /\ loadedTrie.loaded =>
       \A w \in TrieProbes : Has(loadedTrie.trie, w) <=> Has(trie, w)
  /\ lookup.op = "Has" /\ lookup.on = "loaded" =>
       (lookup.ret <=> Has(trie, lookup.w))

\* The loaded trie has a word with a rune of two bytes, and lacks its
\* prefix.
C20_Witness ==
  /\ lookup.op = "Has" /\ lookup.on = "loaded"
  /\ lookup.w = <<"a", EAcute>> /\ lookup.ret
  /\ ~Has(loadedTrie.trie, <<"a">>)
  /\ Has(loadedTrie.trie, << >>)


(***************************************************************************)
(* Prefix completion on the artifacts of a build                           *)
(***************************************************************************)
MaxCount == 2

\* The prefixes asked for.
Prefixes ==
  { << >>, <<"F">>, <<"c">>, <<"f","o">>, <<"c","a","t">>, <<"x">>,
    <<"t","h">>, <<"O","W">> }

PrefixContents ==
  { [kind |-> "ok", body |-> Body1],
    [kind |-> "ok", body |-> Body2],
    [kind |-> "ok", body |-> Body3] }

\* The artifacts of a finished build; query.trie may have been left out of
\* the index directory.
InitPrefix ==
  /\ \E n \in 0..MaxFiles :
       /\ fsys \in [ { Names[i] : i \in 1..n } -> PrefixContents ]
       /\ ib = InjestFilesInOrder(fsys, SubSeq(Names, 1, n))
  /\ \E there \in BOOLEAN :
       disk = [Serialize(ib, ib.injested, ib.nDocs) EXCEPT
                 !.queryTrie = IF there THEN @ ELSE [exists |-> FALSE]]
  /\ IdleBuild
  /\ IdleReader
  /\ IdleUnits

\* One call of Index.Prefix.
QueryPrefix ==
  /\ idx.loaded
  /\ calls = << >>
  /\ \E prefix \in Prefixes, n \in -1..MaxCount :
       \E ret \in Prefix(idx, prefix, n) :
         calls' = << [op |-> "Prefix", prefix |-> prefix, n |-> n,
                      ret |-> ret] >>
  /\ UNCHANGED << fsys, unitVars, buildVars, ib, disk, idx, indexCursor,
                  catalogCursor >>

NextPrefix == Load \/ QueryPrefix

SpecPrefix == InitPrefix /\ [][NextPrefix]_vars

\* The vocabulary words a completion of prefix may hold.
Completions(prefix) ==
  { w \in Range(Flatten(ib.words)) :
      StartsWith(w, ToLower(prefix)) /\ w \notin stopWords }

\* C18: Prefix(prefix, n) returns nothing when no trie is loaded or n = 0;
\* otherwise every returned string is a vocabulary word that starts with the
\* case-folded prefix and is no stop word, none is returned twice, all of
\* them are returned when n < 0 and exactly min(n, total) when n > 0.
C18_PrefixCompletion ==
  \A i \in DOMAIN calls :
    LET c == calls[i]
        total == Completions(c.prefix)
    IN  c.op = "Prefix" =>
          IF idx.prefixTree.nil \/ c.n = 0 THEN c.ret = << >>
          ELSE /\ Range(c.ret) \subseteq total
               /\ NoDuplicates(c.ret)
               /\ c.n < 0 => Range(c.ret) = total
               /\ c.n > 0 => Len(c.ret) = Min(c.n, Cardinality(total))

\* A prefix in upper case with several completions was cut to one, and
\* the vocabulary has a word outside the completions.
C18_Witness ==
  /\ calls # << >>
  /\ calls[1].op = "Prefix"
  /\ ~idx.prefixTree.nil
  /\ calls[1].prefix = <<"O","W">> \/ calls[1].prefix = <<"F">>
  /\ calls[1].n = 1
  /\ Len(calls[1].ret) = 1
  /\ Cardinality(Range(Flatten(ib.words))) > 1


(***************************************************************************)
(* The string table on its own: insert, look up, flatten, serialise        *)
(***************************************************************************)
MaxStrings == 3

SmallStrings == { << >>, <<"a">>, <<"b">>, <<"a","b">> }

\* A string of n bytes.
Repeat(n) == [i \in 1..n |-> "a"]

\* Lengths around the limit of the MaxLen field of the header.
LimitLens == { 1, 65534, 65535, 65536 }

LongStrings == { Repeat(n) : n \in LimitLens }

\* The strings of the pool in use.
PoolStrings ==
  CASE ssPool = "small" -> SmallStrings
    [] ssPool = "limits" -> LongStrings
    [] OTHER -> {}

\* A StringSet drawn from starts, for callers that use the strings of pool.
InitStringSetWith(pool, starts) ==
  /\ IdleBuilder
  /\ text = << >>
  /\ tokens = NoTokens
  /\ IdleTrie
  /\ ss \in starts
  /\ ssPool = pool
  /\ ssLast = NoLookup
  /\ IdleSets
  /\ IdleSer

InitStringSet == InitStringSetWith("small", { NewStringSet })

\* The StringSet is new or holds one string of the pool.
InitStringSetLimits ==
  InitStringSetWith("limits",
    { NewStringSet } \cup { StringSetInsert(NewStringSet, s) : s \in LongStrings })

\* ss.Insert(s)
SSInsert ==
  /\ \E s \in PoolStrings :
       /\ s \in DOMAIN ss.strings \/ Cardinality(DOMAIN ss.strings) < MaxStrings
       /\ ss' = StringSetInsert(ss, s)
       /\ ssLast' = [op |-> "Insert", s |-> s, before |-> ss,
                     ret |-> StringSetInsertIdx(ss, s)]
  /\ UNCHANGED << fsys, buildVars, ib, disk, readerVars, text, tokens,
                  trieVars, setVars, ser, ssPool >>

\* ss.Index(s)
SSIndex ==
  /\ \E s \in PoolStrings :
       ssLast' = [op |-> "Index", s |-> s, before |-> ss,
                  ret |-> StringSetIndex(ss, s)]
  /\ UNCHANGED << fsys, buildVars, ib, disk, readerVars, text, tokens,
                  trieVars, setVars, ser, ss, ssPool >>

\* ss.Flatten()
SSFlatten ==
  /\ ssLast' = [op |-> "Flatten", before |-> ss,
                ret |-> [sa |-> Flatten(ss),
                         maxlen |-> MaxLenOf(Flatten(ss))]]
  /\ UNCHANGED << fsys, buildVars, ib, disk, readerVars, text, tokens,
                  trieVars, setVars, ser, ss, ssPool >>

\* ss.Serialize(outpath): the error, and the file when there is none.
SSSerialize ==
  /\ ssLast' = [op |-> "Serialize",
                err |-> StringSetSerializeErr(ss),
                file |-> IF StringSetSerializeErr(ss) = NoErr
                         THEN [written |-> TRUE, sid |-> StringSetSerialize(ss)]
                         ELSE NoFile]
  /\ UNCHANGED << fsys, buildVars, ib, disk, readerVars, text, tokens,
                  trieVars, setVars, ser, ss, ssPool >>

NextStringSet == SSInsert \/ SSIndex \/ SSFlatten \/ SSSerialize

SpecStringSet == InitStringSet /\ [][NextStringSet]_vars

SpecStringSetLimits == InitStringSetLimits /\ [][NextStringSet]_vars

\* C21: the indices handed out are dense 0..n-1 in order of first
\* insertion; inserting a string already present returns its index and
\* leaves the table as it was; Flatten()[Insert(s)] = s; Index finds exactly
\* the inserted strings and does not change the table.
C21_StringTable ==
  LET n == Cardinality(DOMAIN ss.strings)
      b == ssLast.before
  IN  /\ { ss.strings[s] : s \in DOMAIN ss.strings } = 0..(n - 1)
      /\ ss.index = n
      /\ Len(Flatten(ss)) = n
      /\ ssLast.op = "Insert" =>
           /\ ssLast.s \in DOMAIN b.strings =>
                ssLast.ret = b.strings[ssLast.s] /\ ss = b
           /\ ssLast.s \notin DOMAIN b.strings =>
                /\ ssLast.ret = Cardinality(DOMAIN b.strings)
                /\ \A t \in DOMAIN b.strings : ss.strings[t] = b.strings[t]
                /\ DOMAIN ss.strings = DOMAIN b.strings \cup { ssLast.s }
           /\ Flatten(ss)[ssLast.ret + 1] = ssLast.s
      /\ ssLast.op = "Index" =>
           /\ ssLast.ret.ok <=> ssLast.s \in Range(Flatten(ss))
           /\ ssLast.ret.ok => Flatten(ss)[ssLast.ret.idx + 1] = ssLast.s
           /\ ss = b

\* "a" was inserted again after "b" and "ab" and got its first index back.
C21_Witness ==
  /\ ssLast.op = "Insert"
  /\ ssLast.s = <<"a">>
  /\ ssLast.ret = 0
  /\ Flatten(ss) = << <<"a">>, <<"b">>, <<"a","b">> >>
  /\ ssLast.before = ss

\* C22: Serialize fails with the too-big error, and writes no file, exactly
\* when there are more than 2^32-1 strings or the longest string has 2^16
\* bytes or more; within the limits, a longest string of 2^16-1 bytes
\* included, it succeeds and the header holds the exact count and maximum
\* length.
C22_SerializeLimits ==
  ssLast.op = "Serialize" =>
    LET strings == Flatten(ss)
        n == Len(strings)
        maxlen == MaxLenOf(strings)
        tooBig == n \div 65536 >= 65536 \/ maxlen >= 65536
    IN  /\ ssLast.err = errTooBigToSave <=> tooBig
        /\ tooBig => ~ssLast.file.written
        /\ ~tooBig =>
             /\ ssLast.err = NoErr
             /\ ssLast.file.written
             /\ ssLast.file.sid.hdr.NStrings = n
             /\ ssLast.file.sid.hdr.MaxLen = maxlen


(***************************************************************************)
(* Opening an index directory whose artifacts may be malformed             *)
(***************************************************************************)
Artifacts == { "filenames", "words", "offsets", "index", "catalog", "trie" }

\* The bytes of data with the four bytes at the 0-based position pos
\* replaced by the big-endian x.
Overwrite4(data, pos, x) ==
  [i \in 1..Len(data) |->
     IF i > pos /\ i <= pos + 4 THEN BigEndian(x, 4)[i - pos] ELSE data[i]]

\* The artifact a of the directory d with the header field at the byte
\* position pos (0 the magic number, 4 the version) set to x.
WithHeaderField(d, a, pos, x) ==
  CASE a = "filenames" ->
         IF pos = 0 THEN [d EXCEPT !.filenamesSid.hdr.Magic = x]
         ELSE [d EXCEPT !.filenamesSid.hdr.Version = x]
    [] a = "words" ->
         IF pos = 0 THEN [d EXCEPT !.wordsSid.hdr.Magic = x]
         ELSE [d EXCEPT !.wordsSid.hdr.Version = x]
    [] a = "offsets" ->
         IF pos = 0 THEN [d EXCEPT !.wordOffsets.hdr.Magic = x]
         ELSE [d EXCEPT !.wordOffsets.hdr.Version = x]
    [] a = "index" -> [d EXCEPT !.corpusIndex = Overwrite4(@, pos, x)]
    [] a = "catalog" -> [d EXCEPT !.corpusCat = Overwrite4(@, pos, x)]
    [] a = "trie" -> [d EXCEPT !.queryTrie.data = Overwrite4(@, pos, x)]

BadMagic(d) == { WithHeaderField(d, a, 0, 0) : a \in Artifacts }

BadVersion(d) == { WithHeaderField(d, a, 4, 2) : a \in Artifacts }

\* The lengths a file of bytes is cut to: inside its header, right after
\* it (hdrLen bytes), and one byte before its end.
Cuts(data, hdrLen) ==
  { k \in { 0, hdrLen - 1, hdrLen, Len(data) - 1 } : k >= 0 /\ k < Len(data) }

\* The directories with one artifact cut short.  A table of strings or of
\* word offsets loses its last entries.
Truncated(d) ==
  { [d EXCEPT !.filenamesSid.strings = SubSeq(@, 1, k)] :
      k \in 0..(Len(d.filenamesSid.strings) - 1) }
  \cup { [d EXCEPT !.wordsSid.strings = SubSeq(@, 1, k)] :
           k \in 0..(Len(d.wordsSid.strings) - 1) }
  \cup { [d EXCEPT !.wordOffsets.entries = SubSeq(@, 1, k)] :
           k \in 0..(Len(d.wordOffsets.entries) - 1) }
  \cup { [d EXCEPT !.corpusIndex = SubSeq(@, 1, k)] :
           k \in Cuts(d.corpusIndex, 20) }
  \cup { [d EXCEPT !.corpusCat = SubSeq(@, 1, k)] :
           k \in Cuts(d.corpusCat, 12) }
  \cup { [d EXCEPT !.queryTrie.data = SubSeq(@, 1, k)] :
           k \in Cuts(d.queryTrie.data, 12) }

\* The directories whose word-offset directory is a well-formed table of
\* another size than the words table.
SizeMismatch(d) ==
  { [d EXCEPT !.wordOffsets.entries = SubSeq(@, 1, k),
              !.wordOffsets.hdr.NumEntries = k] :
      k \in 0..(Len(d.wordOffsets.entries) - 1) }

Malformed(d) == BadMagic(d) \cup BadVersion(d) \cup Truncated(d) \cup SizeMismatch(d)

WithoutTrie(d) == [d EXCEPT !.queryTrie = [exists |-> FALSE]]

OpenContents ==
  { [kind |-> "ok", body |-> Body1],
    [kind |-> "ok", body |-> Body3] }

\* The index directory search is started on.
InitOpen ==
  /\ \E n \in 1..MaxFiles :
       /\ fsys \in [ { Names[i] : i \in 1..n } -> OpenContents ]
       /\ ib = InjestFilesInOrder(fsys, SubSeq(Names, 1, n))
  /\ LET good == Serialize(ib, ib.injested, ib.nDocs)
     IN  disk \in { good, WithoutTrie(good) } \cup Malformed(good)
  /\ IdleBuild
  /\ IdleReader
  /\ IdleUnits

\* search: LoadIndexFromDisk, whatever it returns.
OpenIndex ==
  /\ ~idx.loaded
  /\ calls = << >>
  /\ LET r == LoadIndexFromDisk(disk) IN
     /\ idx' = r.idx
     /\ calls' = << [op |-> "LoadIndexFromDisk", err |-> r.err,
                      panic |-> r.panic] >>
     /\ indexCursor' = IF r.err = NoErr THEN 20 ELSE indexCursor
     /\ catalogCursor' = IF r.err = NoErr
                         THEN 12 + 8 * Len(r.idx.contentEntry)
                         ELSE catalogCursor
  /\ UNCHANGED << fsys, unitVars, buildVars, ib, disk >>

\* A request for completions on the opened index.
OpenPrefix ==
  /\ idx.loaded
  /\ Len(calls) = 1
  /\ \E prefix \in Prefixes :
       \E ret \in Prefix(idx, prefix, -1) :
         calls' = Append(calls, [op |-> "Prefix", prefix |-> prefix,
                                 n |-> -1, ret |-> ret])
  /\ UNCHANGED << fsys, unitVars, buildVars, ib, disk, idx, indexCursor,
                  catalogCursor >>

NextOpen == OpenIndex \/ OpenPrefix

SpecOpen == InitOpen /\ [][NextOpen]_vars

\* The artifacts the builder wrote for the directory.
GoodArtifacts == Serialize(ib, ib.injested, ib.nDocs)

\* C23: LoadIndexFromDisk returns an error and no Index when an artifact has
\* a bad magic number, an unsupported version, is truncated, or when the
\* word-offset directory and the words table differ in size; a missing
\* query.trie alone does not fail the open and only disables prefix
\* completion.
C23_OpenRejectsMalformed ==
  calls # << >> /\ calls[1].op = "LoadIndexFromDisk" =>
    /\ disk \in Malformed(GoodArtifacts) =>
         calls[1].err # NoErr /\ ~idx.loaded
    /\ disk = WithoutTrie(GoodArtifacts) =>
         /\ calls[1].err = NoErr
         /\ idx.loaded
         /\ idx.words = Flatten(ib.words)
         /\ \A i \in DOMAIN calls : calls[i].op = "Prefix" => calls[i].ret = << >>

\* The same statement with the truncations limited to those that reach into
\* a header or a table: a file of bytes cut after its header is left out.
C23_HeadersAndTables ==
  calls # << >> /\ calls[1].op = "LoadIndexFromDisk" =>
    /\ (disk \in Malformed(GoodArtifacts)
          /\ Len(disk.corpusIndex) \in { Len(GoodArtifacts.corpusIndex) } \cup 0..19
          /\ Len(disk.corpusCat) \in { Len(GoodArtifacts.corpusCat) } \cup 0..11
          /\ Len(disk.queryTrie.data) \in
               { Len(GoodArtifacts.queryTrie.data) } \cup 0..11) =>
         calls[1].err # NoErr /\ ~idx.loaded
    /\ disk = WithoutTrie(GoodArtifacts) =>
         /\ calls[1].err = NoErr
         /\ idx.loaded
         /\ \A i \in DOMAIN calls : calls[i].op = "Prefix" => calls[i].ret = << >>


(***************************************************************************)
(* The layout of the catalog                                               *)
(***************************************************************************)
\* The compressed payload the builder holds for the file of a filename
\* index.
PayloadOf(fidx) ==
  LET item == CHOOSE it \in Range(ib.injested) :
                /\ it.Err = NoErr
                /\ StringSetIndex(ib.filenames, it.Filename).ok
                /\ StringSetIndex(ib.filenames, it.Filename).idx = fidx
  IN  item.Compressed

\* C24: in the directory of corpus.cat the offsets of the stored entries are
\* non-decreasing in filename-index order; the payloads lie in that order
\* right after the directory, the offset of an entry being that of the
\* previous stored entry plus the length of its compressed payload.  The
\* entries past the last filename index hold no body: they are (0, 0).
C24_CatalogLayout ==
  LET n == CatalogNumEntries
      stored == Len(Flatten(ib.filenames))
  IN  /\ stored <= n
      /\ \A fidx \in 0..(stored - 1) :
           /\ CatalogEntry(fidx).Offset =
                IF fidx = 0 THEN 12 + 8 * n
                ELSE CatalogEntry(fidx - 1).Offset + Len(PayloadOf(fidx - 1))
           /\ fidx > 0 =>
                CatalogEntry(fidx - 1).Offset <= CatalogEntry(fidx).Offset
           /\ SubSeq(disk.corpusCat, CatalogEntry(fidx).Offset + 1,
                     CatalogEntry(fidx).Offset + Len(PayloadOf(fidx)))
                = PayloadOf(fidx)
      /\ \A fidx \in stored..(n - 1) :
           CatalogEntry(fidx) = [Offset |-> 0, Length |-> 0]
      /\ Len(disk.corpusCat) =
           IF stored = 0 THEN 12 + 8 * n
           ELSE CatalogEntry(stored - 1).Offset + Len(PayloadOf(stored - 1))

\* Two stored payloads of different lengths behind a directory of two
\* entries.
C24_Witness ==
  /\ CatalogNumEntries = 2
  /\ Len(Flatten(ib.filenames)) = 2
  /\ CatalogEntry(0).Offset = 28
  /\ CatalogEntry(1).Offset > 28
  /\ Len(PayloadOf(0)) # Len(PayloadOf(1))
  /\ Len(PayloadOf(1)) > 0


(***************************************************************************)
(* The Set container on its own                                            *)
(***************************************************************************)
MaxElems == 3

Elems == 1..MaxElems

InitSets ==
  /\ IdleBuilder
  /\ text = << >>
  /\ tokens = NoTokens
  /\ IdleTrie
  /\ IdleTable
  /\ IdleSets
  /\ IdleSer

\* s.Insert(item) on one of the two Sets
SetInsertCall ==
  /\ \E on \in { "s", "a" }, x \in Elems :
       /\ sets' = [sets EXCEPT ![on] = SetInsert(@, x),
                               !.lastOn[on] = MapPut(@, x, "Insert")]
       /\ setLast' = [op |-> "Insert", on |-> on, x |-> x, before |-> sets]
  /\ UNCHANGED << fsys, buildVars, ib, disk, readerVars, text, tokens,
                  trieVars, tableVars, ser >>

\* s.Remove(item)
SetRemoveCall ==
  /\ \E on \in { "s", "a" }, x \in Elems :
       /\ sets' = [sets EXCEPT ![on] = SetRemove(@, x),
                               !.lastOn[on] = MapPut(@, x, "Remove")]
       /\ setLast' = [op |-> "Remove", on |-> on, x |-> x, before |-> sets]
  /\ UNCHANGED << fsys, buildVars, ib, disk, readerVars, text, tokens,
                  trieVars, tableVars, ser >>

\* s.Has(item)
SetHasCall ==
  /\ \E on \in { "s", "a" }, x \in Elems :
       setLast' = [op |-> "Has", on |-> on, x |-> x, before |-> sets,
                   ret |-> SetHas(sets[on], x)]
  /\ UNCHANGED << fsys, buildVars, ib, disk, readerVars, text, tokens,
                  trieVars, tableVars, sets, ser >>

\* s.Union(a), s.Intersect(a), s.Difference(a)
SetBinaryCall ==
  /\ \E op \in { "Union", "Intersect", "Difference" } :
       setLast' = [op |-> op, before |-> sets,
                   ret |-> CASE op = "Union" -> SetUnion(sets.s, sets.a)
                             [] op = "Intersect" -> SetIntersect(sets.s, sets.a)
                             [] op = "Difference" -> SetDifference(sets.s, sets.a)]
  /\ UNCHANGED << fsys, buildVars, ib, disk, readerVars, text, tokens,
                  trieVars, tableVars, sets, ser >>

NextSets == SetInsertCall \/ SetRemoveCall \/ SetHasCall \/ SetBinaryCall

SpecSets == InitSets /\ [][NextSets]_vars

\* C25: Has(x) is true exactly when the last call on x was an Insert; a
\* second Insert keeps one element and a Remove of an absent element
\* changes nothing; Union, Intersect and Difference return a new set equal
\* to the union, the intersection and the difference s minus a, and leave
\* both operands as they were.
C25_SetContainer ==
  LET S == DOMAIN sets.s.elems
      A == DOMAIN sets.a.elems
      b == setLast.before
  IN  /\ \A on \in { "s", "a" }, x \in Elems :
           SetHas(sets[on], x) <=>
             (x \in DOMAIN sets.lastOn[on] /\ sets.lastOn[on][x] = "Insert")
      /\ setLast.op = "Has" =>
           (setLast.ret <=>
              (setLast.x \in DOMAIN sets.lastOn[setLast.on]
                 /\ sets.lastOn[setLast.on][setLast.x] = "Insert"))
      /\ (setLast.op = "Insert" /\ SetHas(b[setLast.on], setLast.x)) =>
           sets[setLast.on] = b[setLast.on]
      /\ (setLast.op = "Remove" /\ ~SetHas(b[setLast.on], setLast.x)) =>
           sets[setLast.on] = b[setLast.on]
      /\ setLast.op = "Union" => DOMAIN setLast.ret.elems = S \cup A
      /\ setLast.op = "Intersect" => DOMAIN setLast.ret.elems = S \cap A
      /\ setLast.op = "Difference" => DOMAIN setLast.ret.elems = S \ A
      /\ setLast.op \in { "Union", "Intersect", "Difference" } =>
           sets = b

\* The difference of two overlapping sets, neither inside the other, after
\* an element of s was removed and inserted again.
C25_Witness ==
  /\ setLast.op = "Difference"
  /\ DOMAIN sets.s.elems = { 1, 2 }
  /\ DOMAIN sets.a.elems = { 2, 3 }
  /\ DOMAIN setLast.ret.elems = { 1 }
  /\ 3 \in DOMAIN sets.lastOn.s /\ sets.lastOn.s[3] = "Remove"


(***************************************************************************)
(* The channels of the ingestion pipeline                                  *)
(***************************************************************************)
SpecPipeline == InitPipeline /\ [][NextBuild]_vars

Merging == collector \in { "merge", "update2", "ingested", "serialized" }

\* C26: the input channel is closed only after the producer has sent every
\* filename, the result channel only after every worker has exited; no
\* goroutine is left to send on a closed channel; the merge loop starts
\* only after the result channel is closed, so that nothing is merged
\* while a worker runs.
C26_ChannelProtocol ==
  LET exited == \A w \in DOMAIN worker : worker[w].pc = "exited"
  IN  /\ inChClosed => produced = Len(filenamesIn)
      /\ outChClosed => exited
      /\ \A w \in DOMAIN worker : worker[w].pc = "send" => ~outChClosed
      /\ Merging => outChClosed
      /\ (ib.nDocs > 0 \/ Len(Flatten(ib.filenames)) > 0) => exited

\* The merge loop has merged a file of a run with as many files and workers
\* as the bounds allow, after both channels were closed.
C26_Witness ==
  /\ collector = "merge"
  /\ ib.nDocs > 0
  /\ Len(filenamesIn) = MaxFiles
  /\ NThreads = MaxThreads
  /\ inChClosed /\ outChClosed
  /\ \A w \in DOMAIN worker : worker[w].pc = "exited"


(***************************************************************************)
(* The offsets of a result, as highlightContent takes them                 *)
(***************************************************************************)
\* C27: in every file result of QueryIndex, for any query, one that
\* repeats a word in the same or in another letter case included, the
\* offsets of WordMatches are strictly increasing: no two records share an
\* offset.
C27_StrictOffsets ==
  Returned =>
    \A r \in DOMAIN calls[1].ret.results :
      LET wm == calls[1].ret.results[r].WordMatches IN
      \A i, j \in DOMAIN wm : i < j => wm[i].Offset < wm[j].Offset

\* The offsets are strictly increasing in the results of a query whose
\* words differ once folded to lower case.
C27_DistinctWords ==
  (Returned /\ \A a, b \in DOMAIN calls[1].querywords :
                 a # b => ToLower(calls[1].querywords[a])
                            # ToLower(calls[1].querywords[b])) =>
    \A r \in DOMAIN calls[1].ret.results :
      LET wm == calls[1].ret.results[r].WordMatches IN
      \A i, j \in DOMAIN wm : i < j => wm[i].Offset < wm[j].Offset


(***************************************************************************)
(* The reader on artifacts that break the invariants of the format         *)
(***************************************************************************)
\* The directories with the word_index of one entry of the word-offset
\* directory set to the number of words.
BadWordIndex(d) ==
  { [d EXCEPT !.wordOffsets.entries[i].WordIndex = Len(d.wordsSid.strings)] :
      i \in DOMAIN d.wordOffsets.entries }

\* The directories with the filename_index of the first posting of one
\* word set to the number of filenames.  The posting count at the entry's
\* offset and the filename_index after it take one byte each.
BadFilenameIndex(d) ==
  { [d EXCEPT !.corpusIndex[d.wordOffsets.entries[i].Offset + 2] =
                 Len(d.filenamesSid.strings)] :
      i \in DOMAIN d.wordOffsets.entries }

InitCorrupt ==
  /\ \E n \in 1..MaxFiles :
       /\ fsys \in [ { Names[i] : i \in 1..n } -> OpenContents ]
       /\ ib = InjestFilesInOrder(fsys, SubSeq(Names, 1, n))
  /\ LET good == Serialize(ib, ib.injested, ib.nDocs)
     IN  disk \in { good } \cup BadWordIndex(good) \cup BadFilenameIndex(good)
  /\ IdleBuild
  /\ IdleReader
  /\ IdleUnits

\* A query on the opened index.
OpenQuery ==
  /\ idx.loaded
  /\ Len(calls) = 1
  /\ \E querywords \in Queries :
       LET run == QueryRun(idx, QueryCall(querywords), indexCursor) IN
       /\ indexCursor' = run.cur
       /\ \E ret \in QueryIndex(idx, querywords, indexCursor) :
            calls' = Append(calls, [run.cs EXCEPT !.pc = "returned", !.ret = ret])
  /\ UNCHANGED << fsys, unitVars, buildVars, ib, disk, idx, catalogCursor >>

NextCorrupt == OpenIndex \/ OpenQuery

SpecCorrupt == InitCorrupt /\ [][NextCorrupt]_vars

\* The posting lists a query decodes: those of its words, up to the first
\* word the index does not hold.
RECURSIVE DecodedLists(_, _)
DecodedLists(index, querywords) ==
  IF querywords = << >> THEN {}
  ELSE LET lquery == ToLower(Head(querywords)) IN
       IF isStopWord(lquery) THEN DecodedLists(index, Tail(querywords))
       ELSE IF lquery \notin DOMAIN index.wordsToOffsets THEN {}
       ELSE { DecodePostingList(index.indexRdr, index.wordsToOffsets[lquery]) }
              \cup DecodedLists(index, Tail(querywords))

\* C28: the reader reports a broken invariant and does not crash.  When
\* an entry of the word-offset directory carries a word_index outside the
\* words table, or a posting decoded during a query a filename_index
\* outside the filenames table, the reader returns an error to its caller:
\* it does not panic, and it returns no result.
C28_ReportsBrokenInvariants ==
  \A i \in DOMAIN calls :
    /\ calls[i].op = "LoadIndexFromDisk" =>
         /\ ~calls[i].panic
         /\ disk \in BadWordIndex(GoodArtifacts) =>
              calls[i].err # NoErr /\ ~idx.loaded
    /\ calls[i].op = "QueryIndex" =>
         /\ ~calls[i].ret.panic
         /\ (\E list \in DecodedLists(idx, calls[i].querywords) :
               \E m \in DOMAIN list :
                 list[m].FilenameStringIndex >= Len(idx.filenames)) =>
              calls[i].ret.err # NoErr /\ calls[i].ret.results = << >>


(***************************************************************************)
(* The progress channels                                                   *)
(*                                                                         *)
(* Serialize is followed step by step.  The directory or a file of a step  *)
(* may fail to be created; the step then returns the error.                *)
(***************************************************************************)
\* Serialize is called: createOutDir.  The caller has set
\* ib.SerializeProgressCh or left it nil.
SerializeBegin ==
  /\ collector = "ingested"
  /\ ser = NoSer
  /\ \E set \in BOOLEAN, created \in BOOLEAN :
       ser' = [pc |-> IF created THEN SerializeSteps[1] ELSE "returned",
               err |-> IF created THEN NoErr ELSE "mkdir failed",
               set |-> set, closed |-> 0, observed |-> << >>]
  /\ UNCHANGED << fsys, buildVars, ib, disk, readerVars, text, tokens,
                  trieVars, tableVars, setVars >>

\* One step of Serialize.  serializeUpdate sends when the channel is set.
\* After the last step the channel is closed and the artifacts are in the
\* directory.
SerializeRun ==
  /\ \E k \in DOMAIN SerializeSteps, created \in BOOLEAN :
       LET r == SerializeStep(ib, SerializeSteps[k], created)
           sent == IF ser.set THEN ser.observed \o r.updates ELSE ser.observed
           last == k = Len(SerializeSteps)
           next == SerializeSteps[IF last THEN k ELSE k + 1]
       IN  /\ ser.pc = SerializeSteps[k]
           /\ IF r.err # NoErr
              THEN /\ ser' = [ser EXCEPT !.pc = "returned", !.err = r.err,
                                         !.observed = sent]
                   /\ UNCHANGED << disk, collector >>
              ELSE IF ~last
              THEN /\ ser' = [ser EXCEPT !.pc = next, !.observed = sent]
                   /\ UNCHANGED << disk, collector >>
              ELSE /\ ser' = [ser EXCEPT !.pc = "returned", !.observed = sent,
                                         !.closed = IF ser.set THEN ser.closed + 1
                                                    ELSE ser.closed]
                   /\ disk' = Serialize(ib, ib.injested, ib.nDocs)
                   /\ collector' = "serialized"
  /\ UNCHANGED << fsys, filenamesIn, maxSize, NThreads, inCh, inChClosed, produced,
                  worker, outChClosed, mergePos, progress, ib, readerVars,
                  text, tokens, trieVars, tableVars, setVars >>

NextProgress == NextInjest \/ SerializeBegin \/ SerializeRun

SpecProgress == InitPipeline /\ [][NextProgress]_vars

\* What the code guarantees of the progress channel of InjestFiles: it is
\* closed when InjestFiles returns and not before, after the last update;
\* there is one phase-1 update per input file and every one of them
\* precedes every phase-2 update, of which there is one per merged file.
InjestProgress ==
  LET obs == progress.observed
      ph(k) == Len(SelectSeq(obs, LAMBDA u : u.Phase = k))
  IN  /\ progress.closed <=> (progress.set /\ InjestDone)
      /\ \A i, j \in DOMAIN obs : i < j => obs[i].Phase <= obs[j].Phase
      /\ InjestDone /\ progress.set =>
           ph(1) = Len(filenamesIn) /\ ph(2) = ib.nDocs

SerializeReturned == ser # NoSer /\ ser.pc = "returned"

\* C29: the progress channels tell the observer to stop.  When a progress
\* channel is set, InjestFiles and Serialize each close it exactly once,
\* after their last update and never before, on every return path, that of
\* a failed phase of Serialize included; in InjestFiles every phase-1
\* update precedes every phase-2 update.
C29_ProgressChannelsClosed ==
  /\ InjestProgress
  /\ ser # NoSer =>
       /\ ser.closed <= 1
       /\ ser.closed = 1 => ser.pc = "returned"
       /\ (ser.pc = "returned" /\ ser.set) => ser.closed = 1

\* The same statement for the calls of Serialize that return nil.
C29_ClosedOnSuccess ==
  /\ InjestProgress
  /\ ser # NoSer =>
       /\ ser.closed <= 1
       /\ ser.closed = 1 => ser.pc = "returned"
       /\ (ser.pc = "returned" /\ ser.set /\ ser.err = NoErr) => ser.closed = 1


============================================================================
